---- MODULE Spec2Model ----
(***************************************************************************)
(* The storage engine of warenhaus (server/src/storage): a Container owns  *)
(* a ColumnLayout (one append-only log per column plus its in-memory       *)
(* vector) and an AutoIndex counter with its sidecar file.  The only       *)
(* mutating operation is Container::index.  The command loop of main.rs    *)
(* owns the Container: it takes Index and InvokeMap commands from one      *)
(* queue, one at a time, and answers each through its responder.           *)
(***************************************************************************)
EXTENDS Integers, Sequences, FiniteSets, TLC

\* ------------------------------------------------------------------ bounds
\* index is called while the in-memory counter is below MaxRows
MaxRows == 2
\* I/O failures the file system produces in one run
MaxFaults == 1
\* the directory is opened at most MaxOpens times
MaxOpens == 3
\* the column file that is looked at record by record holds at most MaxRecords
MaxRecords == 2
\* the front end sends at most MaxCommands commands
MaxCommands == 4
\* the AddMapFn commands the front end sends at most
MaxCompiles == 2

VARIABLES
    config,           \* Container.config : SchemaConfig
    columns,          \* Container.columns.columns : Vec<Column>, in layout order
    index_counter,    \* Container.index_counter.counter (in memory)
    auto_index_file,  \* the auto_index sidecar on disk
    params,           \* the IndexParams of the last index call
    result,           \* what the last index call returned
    assigned,         \* the identifiers index took from the counter and wrote to the id column
    faults,           \* I/O failures so far
    column_names_ordered, \* Container.columns.column_names_ordered : Vec<(String, DataType)>
    layout_file,      \* column_layout.json on disk
    opens,            \* how often Container::new has opened the directory
    since_write,      \* how often the directory was opened since a file of it was last written
    original,         \* a Cell handed to Cell::to_bytes
    encoded,          \* the (tag, payload) handed to Cell::from_bytes
    decoded,          \* what Cell::from_bytes returned
    external,         \* a serde_json::Value handed to Cell::from_json_value
    converted,        \* what Cell::from_json_value made of it
    raw,              \* one column file, record by record, all four fields of each
    loaded,           \* what Column::load made of that file
    queue,            \* the commands in the channel from the front end to the command loop
    arrivals,         \* how many commands the front end has put into that channel
    command,          \* the command the loop is handling
    pc,               \* where the loop task is: "loop", "query", "drain" or "panicked"
    to_send,          \* the rows Container::query has still to send
    query_channel,    \* the rows in the channel Container::query sends to
    rows,             \* the rows InvokeMap has kept so far
    replies,          \* what the responders were sent, in the order of sending
    dropped,          \* the commands whose caller has dropped its reply channel
    response,         \* the HTTP status index_handler answered its request with
    artifacts,        \* the .wat files of the query directory, by function name
    compiler,         \* whether ASM_SCRIPT_COMPILER_PATH is set
    compiled,         \* the runs of the external compiler so far: the name compiled for and the output
    appends,          \* the records written to one column file, with the bytes of each that reached it
    handle,           \* the Column of that file: "fresh", "loaded", "closed" or "panicked"
    held,             \* Column.entries of that file
    position,         \* the position of the file handle
    offset            \* what the last Column::insert returned

\* what Container::index leaves alone
layout_vars == <<column_names_ordered, layout_file, opens>>

\* the codec on its own
codec_vars == <<original, encoded, decoded, external, converted>>

\* one column file byte by byte, and the Column that has it open
disk_vars == <<appends, handle, held, position, offset>>

\* one column file on its own
file_vars == <<raw, loaded, appends, handle, held, position, offset>>

\* the command loop and its channels
loop_vars == <<queue, arrivals, command, pc, to_send, query_channel, rows, replies>>

\* the callers of the web front end
caller_vars == <<dropped, response>>

\* the filter runtime: the compiler and what it has stored
runtime_vars == <<artifacts, compiler, compiled>>

\* the Container and its directory
container_vars ==
    <<config, columns, index_counter, auto_index_file, params, result, assigned, faults,
      column_names_ordered, layout_file, opens, since_write>>

vars == <<config, columns, index_counter, auto_index_file, params, result, assigned, faults,
          column_names_ordered, layout_file, opens, since_write, original, encoded, decoded,
          external, converted,
          raw, loaded, queue, arrivals, command, pc, to_send, query_channel, rows, replies,
          dropped, response, artifacts, compiler, compiled, appends, handle, held, position, offset>>

\* ------------------------------------------------------------ cell codec
TAG_I64 == 1
TAG_F64 == 2
TAG_STR == 3
TAG_BOOL == 4

\* Cell: one of Int(i64), Float(f64), String, Boolean.  An f64 is held as the
\* eight bytes of its bit pattern, sign and exponent first; a string as its
\* UTF-8 bytes.
\* Each variant names its payload differently, as each holds another type.
CellInt(n) == [t |-> "Int", i |-> n]
CellFloat(bits) == [t |-> "Float", f |-> bits]
CellString(bytes) == [t |-> "String", s |-> bytes]
CellBoolean(b) == [t |-> "Boolean", b |-> b]

\* byte i (0 = least significant) of a non-negative integer below 2^31
ByteOf(u, i) == IF i >= 4 THEN 0 ELSE (u \div (256 ^ i)) % 256

\* write_i64::<LittleEndian>: the eight bytes of the two's complement of n
write_i64(n) ==
    IF n >= 0
    THEN [i \in 1..8 |-> ByteOf(n, i - 1)]
    ELSE [i \in 1..8 |-> 255 - ByteOf(-(n + 1), i - 1)]

\* None
NoValue == [none |-> TRUE]

\* read_i64 and read_f64 fail on fewer than eight bytes; bytes after the
\* eighth are left unread
ReadsEight(data) == Len(data) >= 8

\* read_i64::<LittleEndian> of at least eight bytes.  Values are held in 32
\* bits here, so the upper half of a decodable value is its sign extension.
read_i64(data) ==
    IF data[8] < 128
    THEN data[1] + 256 * data[2] + 65536 * data[3] + 16777216 * data[4]
    ELSE -((255 - data[1]) + 256 * (255 - data[2]) + 65536 * (255 - data[3])
           + 16777216 * (255 - data[4])) - 1

Reverse(seq) == [i \in 1..Len(seq) |-> seq[Len(seq) + 1 - i]]

\* write_f64::<LittleEndian>: the bit pattern, least significant byte first
write_f64(bits) == Reverse(bits)

\* read_f64::<LittleEndian> of at least eight bytes
read_f64(data) == Reverse(SubSeq(data, 1, 8))

\* String::from_utf8 accepts exactly the well-formed UTF-8 byte sequences
RECURSIVE IsUtf8(_)
IsUtf8(data) ==
    LET n == Len(data)
        b(i) == data[i]
        cont(i) == i <= n /\ b(i) \in 128..191
        rest(k) == IsUtf8(SubSeq(data, k + 1, n))
    IN  IF n = 0 THEN TRUE
        ELSE IF b(1) <= 127 THEN rest(1)
        ELSE IF b(1) \in 194..223 THEN cont(2) /\ rest(2)
        ELSE IF b(1) = 224 THEN n >= 2 /\ b(2) \in 160..191 /\ cont(3) /\ rest(3)
        ELSE IF b(1) = 237 THEN n >= 2 /\ b(2) \in 128..159 /\ cont(3) /\ rest(3)
        ELSE IF b(1) \in 225..239 THEN cont(2) /\ cont(3) /\ rest(3)
        ELSE IF b(1) = 240
        THEN n >= 2 /\ b(2) \in 144..191 /\ cont(3) /\ cont(4) /\ rest(4)
        ELSE IF b(1) \in 241..243 THEN cont(2) /\ cont(3) /\ cont(4) /\ rest(4)
        ELSE IF b(1) = 244
        THEN n >= 2 /\ b(2) \in 128..143 /\ cont(3) /\ cont(4) /\ rest(4)
        ELSE FALSE

\* Cell::to_bytes without the checksum: (tag, payload)
to_bytes(cell) ==
    CASE cell.t = "Int" -> [tag |-> TAG_I64, bytes |-> write_i64(cell.i)]
      [] cell.t = "Float" -> [tag |-> TAG_F64, bytes |-> write_f64(cell.f)]
      [] cell.t = "String" -> [tag |-> TAG_STR, bytes |-> cell.s]
      [] cell.t = "Boolean" ->
            [tag |-> TAG_BOOL, bytes |-> write_i64(IF cell.b THEN 1 ELSE 0)]

\* the first eight bytes read as an i64 are the number 1
ReadsOne(data) == SubSeq(data, 1, 8) = <<1, 0, 0, 0, 0, 0, 0, 0>>

\* a variant of from_bytes in which every payload other than 0 is true
from_bytes_nonzero_is_true(tag_byte, data) ==
    CASE tag_byte = TAG_I64 ->
            IF ReadsEight(data) THEN CellInt(read_i64(data)) ELSE NoValue
      [] tag_byte = TAG_F64 ->
            IF ReadsEight(data) THEN CellFloat(read_f64(data)) ELSE NoValue
      [] tag_byte = TAG_STR -> IF IsUtf8(data) THEN CellString(data) ELSE NoValue
      [] tag_byte = TAG_BOOL ->
            IF ReadsEight(data)
            THEN CellBoolean(SubSeq(data, 1, 8) # <<0, 0, 0, 0, 0, 0, 0, 0>>)
            ELSE NoValue
      [] OTHER -> NoValue

\* Cell::from_bytes
from_bytes(tag_byte, data) ==
    CASE tag_byte = TAG_I64 ->
            IF ReadsEight(data) THEN CellInt(read_i64(data)) ELSE NoValue
      [] tag_byte = TAG_F64 ->
            IF ReadsEight(data) THEN CellFloat(read_f64(data)) ELSE NoValue
      [] tag_byte = TAG_STR -> IF IsUtf8(data) THEN CellString(data) ELSE NoValue
      [] tag_byte = TAG_BOOL ->
            IF ReadsEight(data) THEN CellBoolean(ReadsOne(data)) ELSE NoValue
      [] OTHER -> NoValue

\* ------------------------------------------------------------- checksum
\* CRC_32_CKSUM: width 32, poly 0x04c11db7, init 0, no reflection, xorout
\* 0xffffffff.  A u32 is held as its upper and its lower 16 bits.
CRC_POLY == <<1217, 7607>>

Xor(a, b) == (a + b) % 2

\* bitwise exclusive or of the lowest n bits of a and b
RECURSIVE XorBits(_, _, _)
XorBits(a, b, n) ==
    IF n = 0 THEN 0
    ELSE Xor(a % 2, b % 2) + 2 * XorBits(a \div 2, b \div 2, n - 1)

\* the bits of a byte, most significant first
BitsOf(byte) == [i \in 1..8 |-> (byte \div (2 ^ (8 - i))) % 2]

\* the register after one more bit of the message
crc_bit(reg, bit) ==
    LET top == reg[1] \div 32768
        hi == (reg[1] % 32768) * 2 + reg[2] \div 32768
        lo == (reg[2] % 32768) * 2
    IN  IF Xor(top, bit) = 1
        THEN << XorBits(hi, CRC_POLY[1], 16), XorBits(lo, CRC_POLY[2], 16) >>
        ELSE << hi, lo >>

\* the register after the eight bits of one more byte
crc_byte(reg, byte) ==
    LET b == BitsOf(byte) IN
    crc_bit(crc_bit(crc_bit(crc_bit(crc_bit(crc_bit(crc_bit(crc_bit(
        reg, b[1]), b[2]), b[3]), b[4]), b[5]), b[6]), b[7]), b[8])

\* the register after the bytes of a message, first to last
RECURSIVE crc_update(_, _)
crc_update(reg, bytes) ==
    IF bytes = <<>> THEN reg
    ELSE CHOOSE out \in {crc_update(r, Tail(bytes)) : r \in {crc_byte(reg, Head(bytes))}} :
            TRUE

\* CRC32.checksum(bytes): a u32, here as its four bytes, most significant first
checksum(bytes) ==
    LET reg == crc_update(<<0, 0>>, bytes)
        hi == 65535 - reg[1]
        lo == 65535 - reg[2]
    IN  << hi \div 256, hi % 256, lo \div 256, lo % 256 >>

\* no cell was handed over, nothing to decode, nothing decoded yet
NoCell == [idle |-> TRUE]
NotEncoded == [idle |-> TRUE]
NotDecoded == [idle |-> TRUE]
NotLoaded == [idle |-> TRUE]

\* ------------------------------------------------------- external values
\* serde_json::Value.  A Number is PosInt(u64), NegInt(i64) or Float(f64); a
\* PosInt is held as its bit 63 (hi) and its low 63 bits (v).
JNull == [k |-> "Null"]
JBool(b) == [k |-> "Bool", b |-> b]
JPosInt(hi, n) == [k |-> "Number", n |-> "PosInt", hi |-> hi, v |-> n]
JNegInt(n) == [k |-> "Number", n |-> "NegInt", v |-> n]
JFloat(bits) == [k |-> "Number", n |-> "Float", f |-> bits]
JString(bytes) == [k |-> "String", s |-> bytes]
JArray == [k |-> "Array"]
JObject == [k |-> "Object"]

\* serde_json: Value::is_i64 -- an integer between i64::MIN and i64::MAX
is_i64(j) ==
    /\ j.k = "Number"
    /\ \/ j.n = "NegInt"
       \/ j.n = "PosInt" /\ j.hi = 0
is_u64(j) == j.k = "Number" /\ j.n = "PosInt"
is_f64(j) == j.k = "Number" /\ j.n = "Float"
is_string(j) == j.k = "String"
is_boolean(j) == j.k = "Bool"

DataTypes == {"Int", "Float", "String", "Boolean"}

\* a variant of is_compatible in which Int takes every integer, u64 included
is_compatible_wrong_int(data_type, other) ==
    CASE data_type = "Int" -> other.k = "Number" /\ other.n # "Float"
      [] data_type = "Float" -> is_f64(other)
      [] data_type = "String" -> is_string(other)
      [] data_type = "Boolean" -> is_boolean(other)

\* a variant of is_compatible in which Int takes every number
is_compatible_any_number(data_type, other) ==
    CASE data_type = "Int" -> other.k = "Number"
      [] data_type = "Float" -> is_f64(other)
      [] data_type = "String" -> is_string(other)
      [] data_type = "Boolean" -> is_boolean(other)

\* DataType::is_compatible
is_compatible(data_type, other) ==
    CASE data_type = "Int" -> is_i64(other)
      [] data_type = "Float" -> is_f64(other)
      [] data_type = "String" -> is_string(other)
      [] data_type = "Boolean" -> is_boolean(other)

\* the process stops with a panic
Panicked == [panic |-> TRUE]

\* Cell::from_json_value.  A number that is_i64 or is_u64 goes through
\* as_i64().unwrap(): as_i64 is None for a u64 above i64::MAX, and the unwrap
\* panics
from_json_value(j) ==
    CASE j.k = "Bool" -> CellBoolean(j.b)
      [] j.k = "Number" /\ is_i64(j) -> CellInt(j.v)
      [] j.k = "Number" /\ is_u64(j) /\ ~is_i64(j) -> Panicked
      [] j.k = "Number" /\ ~(is_i64(j) \/ is_u64(j)) -> CellFloat(j.f)
      [] j.k = "String" -> CellString(j.s)
      [] OTHER -> NoValue

\* ------------------------------------------------------------ the schema
\* the two-column schema of the container's tests
TwoColumns ==
    << [name |-> "url", data_type |-> "String"],
       [name |-> "points", data_type |-> "Int"] >>

\* Column::new followed by Column::load on a file that does not exist yet
NewColumn(name, data_type) ==
    [name |-> name, data_type |-> data_type, entries |-> <<>>, f |-> <<>>]

\* a variant of NewLayout that adds the timestamp column whatever the schema says
NewLayout_always_timestamp(cfg) ==
    << NewColumn("id", "Int") >>
    \o [i \in 1..Len(cfg.columns) |->
            NewColumn(cfg.columns[i].name, cfg.columns[i].data_type)]
    \o << NewColumn("timestamp", "Int") >>

\* Container::new on a directory without column_layout.json
NewLayout(cfg) ==
    << NewColumn("id", "Int") >>
    \o [i \in 1..Len(cfg.columns) |->
            NewColumn(cfg.columns[i].name, cfg.columns[i].data_type)]
    \o (IF cfg.add_timestamp_column THEN << NewColumn("timestamp", "Int") >> ELSE <<>>)

\* ColumnLayout::insert_column for each column: the (name, type) pairs in the
\* order of the columns vector
names_ordered(cols) ==
    [i \in 1..Len(cols) |-> [name |-> cols[i].name, data_type |-> cols[i].data_type]]

\* ColumnLayout::persist_layout: column_layout.json is overwritten with
\* column_names_ordered
persist_layout(names) == [exists |-> TRUE, names |-> names]

\* --------------------------------------------------------- ColumnLayout
column_names == {columns[i].name : i \in 1..Len(columns)}

HasColumn(name) == \E i \in 1..Len(columns) : columns[i].name = name

\* position of the first column with that name (Iterator::find)
ColumnIndex(cols, name) ==
    CHOOSE i \in 1..Len(cols) :
        /\ cols[i].name = name
        /\ \A j \in 1..(i - 1) : cols[j].name # name

find_column(name) == columns[ColumnIndex(columns, name)]

timestamp_column == HasColumn("timestamp")

\* Column::insert: one record is written at the end of the file
insert(col, cell) == [col EXCEPT !.f = Append(@, to_bytes(cell))]

\* Column::insert for each cell of a list, in order
RECURSIVE insert_all(_, _)
insert_all(col, cells) ==
    IF cells = <<>> THEN col
    ELSE insert_all(insert(col, Head(cells)), Tail(cells))

\* the cells of the staged pairs that ColumnLayout::commit's lookup by name
\* sends to the column at position i
CellsFor(cols, values, i) ==
    LET mine == SelectSeq(values, LAMBDA pair : ColumnIndex(cols, pair.name) = i)
    IN  [k \in 1..Len(mine) |-> mine[k].cell]

\* ColumnLayout::commit stopped after the first n staged pairs
commit_columns(cols, values, n) ==
    [i \in 1..Len(cols) |-> insert_all(cols[i], CellsFor(cols, SubSeq(values, 1, n), i))]

\* the cells the records of a column file decode to
Stored(col) == [i \in 1..Len(col.f) |-> from_bytes(col.f[i].tag, col.f[i].bytes)]

\* Column::load on a column just made by Column::new: every record of the
\* file, from its start, is decoded and pushed
load(col) == [col EXCEPT !.entries = @ \o Stored(col)]

\* the file column_<name> of the directory; Column::new creates it empty
FileOf(cols, name) ==
    IF \E i \in 1..Len(cols) : cols[i].name = name
    THEN cols[ColumnIndex(cols, name)].f
    ELSE <<>>

\* a variant of OpenColumn that keeps the vector the column had in memory
OpenColumn_keeps_entries(cols, name, data_type) ==
    [name |-> name, data_type |-> data_type,
     entries |-> IF \E i \in 1..Len(cols) : cols[i].name = name
                 THEN cols[ColumnIndex(cols, name)].entries ELSE <<>>,
     f |-> FileOf(cols, name)]

\* Column::new on the directory the columns cols keep their files in
OpenColumn(cols, name, data_type) ==
    [name |-> name, data_type |-> data_type, entries |-> <<>>, f |-> FileOf(cols, name)]

\* ColumnLayout::load: one loaded column per (name, type) of the sidecar, in
\* the sidecar's order
load_layout(cols, names) ==
    [i \in 1..Len(names) |-> load(OpenColumn(cols, names[i].name, names[i].data_type))]

\* ColumnFrame: the names and the cells of one row, in layout order
ColumnFrame(cols, n) ==
    [column_names |-> [i \in 1..Len(cols) |-> cols[i].name],
     column_values |-> [i \in 1..Len(cols) |-> cols[i].entries[n]]]

\* a variant of all_rows that makes frames as far as the first column reaches
all_rows_unchecked(cols) ==
    [panic |-> FALSE,
     rows |-> [n \in 1..Len(cols[1].entries) |->
                [column_names |-> [i \in 1..Len(cols) |-> cols[i].name],
                 column_values |->
                    [i \in 1..Len(cols) |->
                        IF n <= Len(cols[i].entries) THEN cols[i].entries[n]
                        ELSE NoValue]]]]

\* ColumnLayout::all_rows: it panics when the vectors differ in length
all_rows(cols) ==
    LET reference_length == Len(cols[1].entries) IN
    IF \A i \in 1..Len(cols) : Len(cols[i].entries) = reference_length
    THEN [panic |-> FALSE, rows |-> [n \in 1..reference_length |-> ColumnFrame(cols, n)]]
    ELSE [panic |-> TRUE, rows |-> <<>>]

\* ------------------------------------------------------------ AutoIndex
\* AutoIndex::next
next(counter) == counter + 1

\* a variant of rollback that leaves the counter advanced
rollback_nothing(counter) == counter

\* AutoIndex::rollback
rollback(counter) == counter - 1

\* AutoIndex::commit: the sidecar is overwritten with the current counter
commit_counter(file, counter) == [exists |-> TRUE, counter |-> counter]

\* AutoIndex::load_or_new reads an absent sidecar as 0
Persisted == IF auto_index_file.exists THEN auto_index_file.counter ELSE 0

\* AutoIndex::load_or_new: the counter of the sidecar, 0 without a sidecar
load_or_new(file) == IF file.exists THEN file.counter ELSE 0

\* ------------------------------------------------------------- results
Ok == [kind |-> "Ok"]
FieldCountMismatch(a, b) == [kind |-> "FieldCountMismatch", a |-> a, b |-> b]
InvalidFields(names) == [kind |-> "InvalidFields", names |-> names]
InvalidDataType(value, data_type) ==
    [kind |-> "InvalidDataType", value |-> value, data_type |-> data_type]
MissingTimestampColumn == [kind |-> "MissingTimestampColumn"]
IoError == [kind |-> "IoError"]
IndexError == [kind |-> "IndexError"]
NotCalled == [kind |-> "NotCalled"]
\* index did not return: the thread panicked in it
IndexPanicked == [kind |-> "Panicked"]

\* ------------------------------------------------------------ Container
Contains(seq, x) == \E i \in 1..Len(seq) : seq[i] = x

\* a variant of validate_fields without the reserved-timestamp test
validate_fields_without_reserved(p) ==
    LET param_field_count ==
            IF config.add_timestamp_column THEN Len(p.fields) + 2
            ELSE Len(p.fields) + 1
        invalid_fields == SelectSeq(p.fields, LAMBDA f : f \notin column_names)
    IN  IF Len(columns) # param_field_count
        THEN FieldCountMismatch(Len(columns), Len(p.fields))
        ELSE IF Len(invalid_fields) > 0
        THEN InvalidFields(invalid_fields)
        ELSE IF Len(p.fields) # Len(p.values)
        THEN FieldCountMismatch(Len(p.fields), Len(p.values))
        ELSE Ok

\* a variant of validate_fields that compares fields and values first
validate_fields_values_first(p) ==
    LET param_field_count ==
            IF config.add_timestamp_column THEN Len(p.fields) + 2
            ELSE Len(p.fields) + 1
        invalid_fields == SelectSeq(p.fields, LAMBDA f : f \notin column_names)
    IN  IF Len(columns) # param_field_count
        THEN FieldCountMismatch(Len(columns), Len(p.fields))
        ELSE IF config.add_timestamp_column /\ Contains(p.fields, "timestamp")
        THEN InvalidFields(<<"timestamp">>)
        ELSE IF Len(p.fields) # Len(p.values)
        THEN FieldCountMismatch(Len(p.fields), Len(p.values))
        ELSE IF Len(invalid_fields) > 0
        THEN InvalidFields(invalid_fields)
        ELSE Ok

\* Container::validate_fields
validate_fields(p) ==
    LET param_field_count ==
            IF config.add_timestamp_column THEN Len(p.fields) + 2
            ELSE Len(p.fields) + 1
        invalid_fields == SelectSeq(p.fields, LAMBDA f : f \notin column_names)
    IN  IF Len(columns) # param_field_count
        THEN FieldCountMismatch(Len(columns), Len(p.fields))
        ELSE IF config.add_timestamp_column /\ Contains(p.fields, "timestamp")
        THEN InvalidFields(<<"timestamp">>)
        ELSE IF Len(invalid_fields) > 0
        THEN InvalidFields(invalid_fields)
        ELSE IF Len(p.fields) # Len(p.values)
        THEN FieldCountMismatch(Len(p.fields), Len(p.values))
        ELSE Ok

Pair(name, cell) == [name |-> name, cell |-> cell]

\* the staging loop of Container::index: positions whose value the column rejects
Incompatible(p) ==
    {i \in 1..Len(p.fields) :
        ~is_compatible(find_column(p.fields[i]).data_type, p.values[i])}

FirstIncompatible(p) ==
    CHOOSE i \in Incompatible(p) : \A j \in Incompatible(p) : i <= j

\* to_be_inserted when every value is accepted
Staged(p, id, now) ==
    << Pair("id", CellInt(id)) >>
    \o (IF config.add_timestamp_column
        THEN << Pair("timestamp", CellInt(now)) >> ELSE <<>>)
    \o [i \in 1..Len(p.fields) |-> Pair(p.fields[i], from_json_value(p.values[i]))]

\* the file operations a call reaches: one per staged pair, then the sidecar
IoOps(p) ==
    IF validate_fields(p) # Ok THEN 0
    ELSE IF config.add_timestamp_column /\ ~timestamp_column THEN 0
    ELSE IF Incompatible(p) # {} THEN 0
    ELSE Len(p.fields) + (IF config.add_timestamp_column THEN 2 ELSE 1) + 1

Outcome(cols, counter, file, res) ==
    [columns |-> cols, counter |-> counter, file |-> file, result |-> res]

\* a variant of rejected in which the counter was advanced before validation
rejected_after_next(err) == Outcome(columns, next(index_counter), auto_index_file, err)

\* a variant of rejected that rolls the counter back, which was not advanced
rejected_with_rollback(err) == Outcome(columns, rollback(index_counter), auto_index_file, err)

\* self.validate_fields(&params)? -- index returns the validation error at once
rejected(err) == Outcome(columns, index_counter, auto_index_file, err)

\* Container::index with Container::commit and Container::rollback.  now is
\* the clock reading; fail_at = k > 0 makes the k-th file operation fail.  A
\* value that is_compatible accepted and from_json_value does not convert
\* ends the call in the panic of the conversion or of its unwrap.
index(p, now, fail_at) ==
    IF validate_fields(p) # Ok
    THEN rejected(validate_fields(p))
    ELSE
    LET id == next(index_counter) IN
    IF config.add_timestamp_column /\ ~timestamp_column
    THEN Outcome(columns, id, auto_index_file, MissingTimestampColumn)
    ELSE IF Incompatible(p) # {}
    THEN LET i == FirstIncompatible(p) IN
         Outcome(columns, rollback(id), auto_index_file,
                 InvalidDataType(p.values[i], find_column(p.fields[i]).data_type))
    ELSE IF \E i \in 1..Len(p.values) : from_json_value(p.values[i]) \in {NoValue, Panicked}
    THEN Outcome(columns, id, auto_index_file, IndexPanicked)
    ELSE
    LET to_be_inserted == Staged(p, id, now) IN
    IF fail_at \in 1..Len(to_be_inserted)
    THEN Outcome(commit_columns(columns, to_be_inserted, fail_at - 1), id,
                 auto_index_file, IoError)
    ELSE IF fail_at = Len(to_be_inserted) + 1
    THEN Outcome(commit_columns(columns, to_be_inserted, Len(to_be_inserted)), id,
                 auto_index_file, IndexError)
    ELSE Outcome(commit_columns(columns, to_be_inserted, Len(to_be_inserted)), id,
                 commit_counter(auto_index_file, id), Ok)

\* ---------------------------------------------------------------- inputs
RECURSIVE SeqsUpTo(_, _)
SeqsUpTo(S, n) ==
    IF n = 0 THEN {<<>>}
    ELSE SeqsUpTo(S, n - 1)
         \cup {Append(s, x) : s \in {t \in SeqsUpTo(S, n - 1) : Len(t) = n - 1}, x \in S}

\* the column names of the schema, the reserved names and a name of no column
FieldNames == {"url", "points", "id", "timestamp", "nope"}

\* the string "a", the number 7 and null
SomeValues == {JString(<<97>>), JPosInt(0, 7), JNull}

\* callers send field lists and value lists up to the length the schema accepts
MaxLen == Len(TwoColumns)

AllParams ==
    {[fields |-> fs, values |-> vs] :
        fs \in SeqsUpTo(FieldNames, MaxLen), vs \in SeqsUpTo(SomeValues, MaxLen)}

\* SystemTime::now() in seconds; read only by a call that stages a timestamp
Clock == {1700000000, 1700000001}

ClockRead(p) ==
    IF IoOps(p) > 0 /\ config.add_timestamp_column THEN Clock ELSE {0}

NoParams == [fields |-> <<>>, values |-> <<>>]

\* ------------------------------------------------------------- commands
\* Command::Index and Command::InvokeMap; seq is the place of the command in
\* the order of arrival
IndexCommand(seq, p) == [kind |-> "Index", seq |-> seq, params |-> p, fn_name |-> ""]
AddMapFnCommand(seq, fn_name) ==
    [kind |-> "AddMapFn", seq |-> seq, params |-> NoParams, fn_name |-> fn_name]
InvokeMapCommand(seq, fn_name) ==
    [kind |-> "InvokeMap", seq |-> seq, params |-> NoParams, fn_name |-> fn_name]
NoCommand == [kind |-> "None", seq |-> 0, params |-> NoParams, fn_name |-> ""]

\* what a responder is sent: the result of index, or Ok(rows)
Reply(cmd, res, frames) ==
    [seq |-> cmd.seq, kind |-> cmd.kind, fn_name |-> cmd.fn_name,
     result |-> res, rows |-> frames]

\* the map functions that were compiled before the process started, and the
\* names a caller may ask for
MapFns == {"all", "odd", "even_or_trap", "odd_or_trap"}
FnNames == MapFns \cup {"missing"}

\* the texts of modules that Module::from_file accepts, each named by what
\* its run function does
Modules == MapFns \cup {"none"}

\* <query_dir>/<name>.wat: absent, or holding bytes; a stretch of bytes that
\* is the UTF-8 of a text is written as that text
NoArtifact == [exists |-> FALSE, wat |-> <<>>]
Artifact(wat) == [exists |-> TRUE, wat |-> wat]

\* no request has been answered
NoResponse == 0

\* Column::insert has not returned
NoOffset == -1

\* ------------------------------------------------------ the state machine
\* the process started for the first time on an empty directory, with the
\* compiler path set or not
Started(cfg, configured) ==
    /\ config = cfg
    /\ columns = NewLayout(cfg)
    /\ index_counter = 0
    /\ auto_index_file = [exists |-> FALSE, counter |-> 0]
    /\ params = NoParams
    /\ result = NotCalled
    /\ assigned = {}
    /\ faults = 0
    /\ column_names_ordered = names_ordered(NewLayout(cfg))
    /\ layout_file = persist_layout(names_ordered(NewLayout(cfg)))
    /\ opens = 1
    /\ since_write = 1
    /\ original = NoCell
    /\ encoded = NotEncoded
    /\ decoded = NotDecoded
    /\ external = NoCell
    /\ converted = NotDecoded
    /\ raw = <<>>
    /\ loaded = NotLoaded
    /\ queue = <<>>
    /\ arrivals = 0
    /\ command = NoCommand
    /\ pc = "loop"
    /\ to_send = <<>>
    /\ query_channel = <<>>
    /\ rows = <<>>
    /\ replies = <<>>
    /\ dropped = {}
    /\ response = NoResponse
    /\ artifacts = [n \in FnNames |-> IF n \in MapFns THEN Artifact(<<n>>) ELSE NoArtifact]
    /\ compiler = configured
    /\ compiled = <<>>
    /\ appends = <<>>
    /\ handle = "fresh"
    /\ held = <<>>
    /\ position = 0
    /\ offset = NoOffset

\* a store opened for the first time on an empty directory
Opened(cfg) == Started(cfg, TRUE)

Init ==
    \E b \in BOOLEAN : Opened([columns |-> TwoColumns, add_timestamp_column |-> b])

\* one call of Container::index by the command loop (main.rs, Command::Index)
Index(p, now, fail_at) ==
    /\ fail_at > 0 => faults < MaxFaults
    /\ \E out \in {index(p, now, fail_at)} :
        /\ columns' = out.columns
        /\ index_counter' = out.counter
        /\ auto_index_file' = out.file
        /\ result' = out.result
    /\ params' = p
    /\ assigned' = IF IoOps(p) > 0 /\ fail_at # 1
                   THEN assigned \cup {next(index_counter)} ELSE assigned
    /\ faults' = IF fail_at > 0 THEN faults + 1 ELSE faults
    /\ since_write' = IF IoOps(p) = 0 \/ fail_at = 1 THEN since_write ELSE 0
    /\ UNCHANGED <<config, layout_vars, codec_vars, file_vars>>

\* the command loop takes the next Index command while none is being answered
ReceiveFrom(requests) ==
    /\ result = NotCalled
    /\ index_counter < MaxRows
    /\ \E p \in requests : \E fail_at \in 0..IoOps(p) : \E now \in ClockRead(p) :
            Index(p, now, fail_at)
    /\ UNCHANGED <<loop_vars, caller_vars, runtime_vars>>

Receive == ReceiveFrom(AllParams)

\* a variant of after_send that unwraps the result of the send
after_send_unwrap(delivered) == IF delivered THEN "loop" ELSE "panicked"

\* responder.send in the Index arm: a failed send (the caller has dropped the
\* receiver) is logged and the loop goes on
after_send(delivered) == "loop"

\* the result is handed to the responder and the command is dropped
RespondTo ==
    /\ result # NotCalled
    /\ result' = NotCalled
    /\ params' = NoParams
    /\ replies' = IF command = NoCommand THEN replies
                  ELSE Append(replies, Reply(command, result, <<>>))
    /\ pc' = IF command = NoCommand THEN pc ELSE after_send(command.seq \notin dropped)
    /\ command' = NoCommand
    /\ UNCHANGED <<queue, arrivals, to_send, query_channel, rows, dropped, runtime_vars>>
    /\ UNCHANGED <<config, columns, index_counter, auto_index_file, assigned, faults,
                   layout_vars, since_write, codec_vars, file_vars>>

Respond == RespondTo /\ UNCHANGED response

\* Container::new on the directory of the running container: the counter
\* comes from the auto_index sidecar; the layout comes from column_layout.json
\* when it is there, else it is built from the schema (id is made but not
\* loaded) and persisted
new_on(cfg, cols, file) ==
    IF layout_file.exists
    THEN [columns |-> load_layout(cols, layout_file.names),
          names |-> layout_file.names,
          layout |-> layout_file,
          counter |-> load_or_new(file)]
    ELSE LET opened ==
                << OpenColumn(cols, "id", "Int") >>
                \o [i \in 1..Len(cfg.columns) |->
                        load(OpenColumn(cols, cfg.columns[i].name,
                                        cfg.columns[i].data_type))]
                \o (IF cfg.add_timestamp_column
                    THEN << load(OpenColumn(cols, "timestamp", "Int")) >> ELSE <<>>)
         IN  [columns |-> opened,
              names |-> names_ordered(opened),
              layout |-> persist_layout(names_ordered(opened)),
              counter |-> load_or_new(file)]

\* Container::new on the directory as the running container has it
new(cfg) == new_on(cfg, columns, auto_index_file)

\* the process is started again on the same directory and schema
Reopen ==
    /\ result = NotCalled
    /\ command = NoCommand
    /\ queue = <<>>
    /\ opens < MaxOpens
    /\ \E out \in {new(config)} :
        /\ columns' = out.columns
        /\ column_names_ordered' = out.names
        /\ layout_file' = out.layout
        /\ index_counter' = out.counter
    /\ opens' = opens + 1
    /\ since_write' = since_write + 1
    /\ UNCHANGED <<config, auto_index_file, params, result, assigned, faults, codec_vars,
                   file_vars, loop_vars, caller_vars, runtime_vars>>

Next == Receive \/ Respond

Spec == Init /\ [][Next]_vars

\* ------------------------------------------------- a store that is reopened
\* a row, a row that names url twice, a row whose second value has the wrong
\* type, and a request with too few fields
RestartRequests ==
    { [fields |-> <<"url", "points">>, values |-> <<JString(<<97>>), JPosInt(0, 7)>>],
      [fields |-> <<"url", "url">>, values |-> <<JString(<<97>>), JString(<<97>>)>>],
      [fields |-> <<"url", "points">>, values |-> <<JString(<<97>>), JNull>>],
      [fields |-> <<"url">>, values |-> <<JString(<<97>>)>>] }

ReceiveRestart == ReceiveFrom(RestartRequests)

NextRestart == ReceiveRestart \/ Respond \/ Reopen

SpecRestart == Init /\ [][NextRestart]_vars

\* ---------------------------------------------------------- the command loop
\* the capacity of the channel Container::query sends the rows to: 10000 in
\* the program, scaled down with the number of rows
QueryCapacity == 2
\* the front end sends Index commands for at most MaxLoopRows rows
MaxLoopRows == QueryCapacity + 1

\* the exported run function of a compiled module, by the text of the module:
\* "all" returns 1, "none" returns 0, "odd" returns the remainder of its
\* argument by 2, "even_or_trap" and "odd_or_trap" return 1
run(wat, num) ==
    IF wat = <<"none">> THEN 0 ELSE IF wat = <<"odd">> THEN num % 2 ELSE 1

\* run.call fails: the module "even_or_trap" executes unreachable for an odd
\* argument, "odd_or_trap" for an even one
traps(wat, num) ==
    \/ wat = <<"even_or_trap">> /\ num % 2 = 1
    \/ wat = <<"odd_or_trap">> /\ num % 2 = 0

\* Module::from_file succeeds: the file holds the text of a module
from_file(wat) == \E m \in Modules : wat = <<m>>

\* WasmError::CompilerNotFound
CompilerNotFound == [kind |-> "CompilerNotFound"]

\* CodeRunner::new: the compiler path is read from the environment
CodeRunner_new ==
    IF compiler THEN [ok |-> TRUE, err |-> Ok] ELSE [ok |-> FALSE, err |-> CompilerNotFound]

\* CodeRunner::execute_map and run_map: the module of fn_name is loaded, the
\* first cell of the row must be an Int, and run is called with it as an i32
\* (the first cell is the id, which stays far below 2^31 here)
execute_map(fn_name, row) ==
    IF ~artifacts[fn_name].exists THEN [ok |-> FALSE, value |-> 0]
    ELSE IF ~from_file(artifacts[fn_name].wat) THEN [ok |-> FALSE, value |-> 0]
    ELSE IF row.column_values[1].t # "Int" THEN [ok |-> FALSE, value |-> 0]
    ELSE IF traps(artifacts[fn_name].wat, row.column_values[1].i)
    THEN [ok |-> FALSE, value |-> 0]
    ELSE [ok |-> TRUE, value |-> run(artifacts[fn_name].wat, row.column_values[1].i)]

\* a variant of the drain loop's test that keeps a row when the function fails
should_include_row_or_failed(r) == ~r.ok \/ r.value # 0

\* the drain loop's test: the row is kept when the function returned nonzero
should_include_row(r) == r.ok /\ r.value # 0

\* a variant of push_row that gives up what it has kept when the function fails
push_row_or_give_up(kept, fn_name, row) ==
    IF ~execute_map(fn_name, row).ok THEN <<>>
    ELSE IF should_include_row(execute_map(fn_name, row)) THEN Append(kept, row)
    ELSE kept

\* one turn of the drain loop: Ok(true) pushes the row, Ok(false) does not,
\* Err is logged
push_row(kept, fn_name, row) ==
    IF should_include_row(execute_map(fn_name, row)) THEN Append(kept, row) ELSE kept

\* a variant of recv that takes the newest command
recv_newest(q) == [command |-> q[Len(q)], rest |-> SubSeq(q, 1, Len(q) - 1)]

\* rx.recv() on the command channel: the oldest command
recv(q) == [command |-> Head(q), rest |-> Tail(q)]

LoopRequests ==
    { [fields |-> <<"url", "points">>, values |-> <<JString(<<97>>), JPosInt(0, 7)>>],
      [fields |-> <<"url", "url">>, values |-> <<JString(<<97>>), JString(<<97>>)>>],
      [fields |-> <<"url", "points">>, values |-> <<JString(<<97>>), JNull>>] }

\* the Index commands the front end has sent so far
RECURSIVE IndexCount(_)
IndexCount(s) ==
    IF s = <<>> THEN 0
    ELSE (IF Head(s).kind = "Index" THEN 1 ELSE 0) + IndexCount(Tail(s))

IndexSent ==
    IndexCount(queue) + IndexCount(replies) + (IF command.kind = "Index" THEN 1 ELSE 0)

\* a web handler sends a command to the command loop
SendFrom(requests, fns) ==
    /\ pc # "panicked"
    /\ arrivals < MaxCommands
    /\ \E cmd \in {IndexCommand(arrivals + 1, p) : p \in requests}
                  \cup {InvokeMapCommand(arrivals + 1, f) : f \in fns} :
        /\ cmd.kind = "Index" => IndexSent < MaxLoopRows
        /\ queue' = Append(queue, cmd)
    /\ arrivals' = arrivals + 1
    /\ UNCHANGED <<caller_vars, runtime_vars, container_vars, codec_vars, file_vars, command, pc, to_send,
                   query_channel, rows, replies>>

\* the filters the callers of the loop ask for
LoopFns == {"all", "odd", "missing"}

Send == SendFrom(LoopRequests, LoopFns)

\* the loop receives an Index command and calls Container::index
ReceiveIndex ==
    /\ pc = "loop"
    /\ command = NoCommand
    /\ result = NotCalled
    /\ queue # <<>>
    /\ \E got \in {recv(queue)} :
        /\ got.command.kind = "Index"
        /\ \E now \in ClockRead(got.command.params) : Index(got.command.params, now, 0)
        /\ command' = got.command
        /\ queue' = got.rest
    /\ UNCHANGED <<arrivals, pc, to_send, query_channel, rows, replies, caller_vars,
                   runtime_vars>>

\* a variant of query that moves the cells out of the columns
query_taking(cols) == [i \in 1..Len(cols) |-> [cols[i] EXCEPT !.entries = <<>>]]

\* Container::query borrows the container (&self) and sends clones of the
\* frames: the columns after the call are the columns before it
query(cols) == cols

\* the loop receives an InvokeMap command: CodeRunner::new, or the panic of
\* its expect; then Container::query calls all_rows, which panics when the
\* columns differ in length
ReceiveInvokeMap ==
    /\ pc = "loop"
    /\ command = NoCommand
    /\ result = NotCalled
    /\ queue # <<>>
    /\ \E got \in {recv(queue)} :
        /\ got.command.kind = "InvokeMap"
        /\ command' = got.command
        /\ queue' = got.rest
    /\ \E scan \in {all_rows(columns)} :
        /\ pc' = IF ~CodeRunner_new.ok \/ scan.panic THEN "panicked" ELSE "query"
        /\ to_send' = IF CodeRunner_new.ok THEN scan.rows ELSE <<>>
    /\ columns' = query(columns)
    /\ query_channel' = <<>>
    /\ rows' = <<>>
    /\ UNCHANGED <<config, index_counter, auto_index_file, params, result, assigned, faults,
                   column_names_ordered, layout_file, opens, since_write>>
    /\ UNCHANGED <<caller_vars, runtime_vars, codec_vars, file_vars, arrivals, replies>>

\* Container::query sends the next row; the send waits while the channel is full
QuerySend ==
    /\ pc = "query"
    /\ to_send # <<>>
    /\ Len(query_channel) < QueryCapacity
    /\ query_channel' = Append(query_channel, Head(to_send))
    /\ to_send' = Tail(to_send)
    /\ UNCHANGED <<caller_vars, runtime_vars, container_vars, codec_vars, file_vars, queue, arrivals, command, pc,
                   rows, replies>>

\* Container::query returns and the sender is dropped
QueryReturn ==
    /\ pc = "query"
    /\ to_send = <<>>
    /\ pc' = "drain"
    /\ UNCHANGED <<caller_vars, runtime_vars, container_vars, codec_vars, file_vars, queue, arrivals, command,
                   to_send, query_channel, rows, replies>>

\* the drain loop receives one row and runs the map function on it
Drain ==
    /\ pc = "drain"
    /\ query_channel # <<>>
    /\ rows' = push_row(rows, command.fn_name, Head(query_channel))
    /\ query_channel' = Tail(query_channel)
    /\ UNCHANGED <<caller_vars, runtime_vars, container_vars, codec_vars, file_vars, queue, arrivals, command, pc,
                   to_send, replies>>

\* the channel is empty and closed: Ok(rows) goes to the responder
ReplyRows ==
    /\ pc = "drain"
    /\ query_channel = <<>>
    /\ replies' = Append(replies, Reply(command, Ok, rows))
    /\ command' = NoCommand
    /\ pc' = after_send(command.seq \notin dropped)
    /\ rows' = <<>>
    /\ UNCHANGED <<caller_vars, runtime_vars, container_vars, codec_vars, file_vars, queue, arrivals, to_send,
                   query_channel>>

NextLoop ==
    \/ Send
    \/ ReceiveIndex
    \/ Respond
    \/ ReceiveInvokeMap
    \/ QuerySend
    \/ QueryReturn
    \/ Drain
    \/ ReplyRows
    \/ Reopen

InitLoop == Opened([columns |-> TwoColumns, add_timestamp_column |-> FALSE])

SpecLoop == InitLoop /\ [][NextLoop]_vars

\* -------------------------------------------- callers that stop waiting
\* a row that is accepted, and the filter that keeps every row
CancelRequests ==
    { [fields |-> <<"url", "points">>, values |-> <<JString(<<97>>), JPosInt(0, 7)>>] }

SendCancel == SendFrom(CancelRequests, {"all"})

\* the caller of a command that has not been answered goes away: its
\* oneshot receiver is dropped
DropReply ==
    /\ \E seq \in (Len(replies) + 1)..arrivals :
        /\ seq \notin dropped
        /\ dropped' = dropped \cup {seq}
    /\ UNCHANGED <<container_vars, codec_vars, file_vars, loop_vars, response, runtime_vars>>

NextCancel ==
    \/ SendCancel
    \/ DropReply
    \/ ReceiveIndex
    \/ Respond
    \/ ReceiveInvokeMap
    \/ QuerySend
    \/ QueryReturn
    \/ Drain
    \/ ReplyRows
    \/ Reopen

SpecCancel == InitLoop /\ [][NextCancel]_vars

\* ------------------------------------------------- filters that fail
\* a filter that fails on odd ids, one that fails on even ids, one that has
\* no module
FailingFns == {"even_or_trap", "odd_or_trap", "missing"}

SendFilter == SendFrom(CancelRequests, FailingFns)

NextFilter ==
    \/ SendFilter
    \/ ReceiveIndex
    \/ Respond
    \/ ReceiveInvokeMap
    \/ QuerySend
    \/ QueryReturn
    \/ Drain
    \/ ReplyRows
    \/ Reopen

SpecFilter == InitLoop /\ [][NextFilter]_vars

\* ------------------------------------------- classifying external values
\* external values of every kind: null, both booleans, an array, an object,
\* the integers 0..15 and 2^63..2^63+15, -16..-1, four floats (1.5, 7.0, 2^63
\* and -0.0) and the strings over "a" and "b" up to two bytes
ExternalValues ==
    {JNull, JArray, JObject}
    \cup {JBool(b) : b \in BOOLEAN}
    \cup {JPosInt(hi, n) : hi \in {0, 1}, n \in 0..15}
    \cup {JNegInt(-n) : n \in 1..16}
    \cup {JFloat(bits) : bits \in
            { <<63, 248, 0, 0, 0, 0, 0, 0>>, <<64, 28, 0, 0, 0, 0, 0, 0>>,
              <<67, 224, 0, 0, 0, 0, 0, 0>>, <<128, 0, 0, 0, 0, 0, 0, 0>> }}
    \cup {JString(bytes) : bytes \in SeqsUpTo({97, 98}, 2)}

\* a value arrives from a request
TakeValue ==
    /\ external = NoCell
    /\ \E v \in ExternalValues : external' = v
    /\ UNCHANGED <<caller_vars, runtime_vars, container_vars, file_vars, loop_vars, original,
                   encoded, decoded, converted>>

\* Cell::from_json_value of the value
Convert ==
    /\ external # NoCell
    /\ converted = NotDecoded
    /\ converted' = from_json_value(external)
    /\ UNCHANGED <<caller_vars, runtime_vars, container_vars, file_vars, loop_vars, original,
                   encoded, decoded, external>>

NextClassify == TakeValue \/ Convert

SpecClassify == Init /\ [][NextClassify]_vars

\* ------------------------------------------------- compiling map functions
\* a byte that is part of no UTF-8 sequence, and the UTF-8 of U+FFFD
Invalid == "0xFF"
Replacement == "U+FFFD"

\* String::from_utf8_lossy followed by as_bytes: every invalid sequence
\* becomes the replacement character
from_utf8_lossy(bytes) ==
    [i \in 1..Len(bytes) |-> IF bytes[i] = Invalid THEN Replacement ELSE bytes[i]]

\* ExitStatus::code: Some(code) of a process that exited, None of one that
\* a signal ended
Exited(code) == [some |-> TRUE, code |-> code]
Signalled == [some |-> FALSE, code |-> 0]
unwrap_or_default(status) == IF status.some THEN status.code ELSE 0

\* std::process::Output of one run of the compiler
Output(status, stdout, stderr) == [status |-> status, stdout |-> stdout, stderr |-> stderr]

\* the runs of the compiler that are tried
Outputs ==
    { Output(Exited(0), <<"all">>, <<>>),
      Output(Exited(0), <<"none">>, <<"w">>),
      Output(Exited(0), <<Invalid, "none">>, <<>>),
      Output(Exited(1), <<"none">>, <<"e">>),
      Output(Exited(1), <<>>, <<Invalid, "e">>),
      Output(Signalled, <<>>, <<>>) }

\* AssemblyCompilationError::CompilationError and its Display
CompilationError(text) == [kind |-> "CompilationError", text |-> text]
to_string(err) == <<"Failed to compile script. Reason: ">> \o err.text

\* WasmError::CompilerError
CompilerError(text) == [kind |-> "CompilerError", text |-> text]

\* AssemblyScriptCompiler::compile_to_wat on the output of the compiler
compile_to_wat(out) ==
    IF unwrap_or_default(out.status) # 0
    THEN [ok |-> FALSE, err |-> CompilationError(from_utf8_lossy(out.stderr)), wat |-> <<>>]
    ELSE [ok |-> TRUE, err |-> CompilationError(<<>>), wat |-> from_utf8_lossy(out.stdout)]

\* a variant of store that adds to the bytes an artifact holds already
store_appending(files, name, wat) ==
    [files EXCEPT ![name] = Artifact(files[name].wat \o wat)]

\* File::create and write_all: the artifact of that name holds these bytes
store(files, name, wat) == [files EXCEPT ![name] = Artifact(wat)]

\* CodeRunner::compile_and_store: the result, and the artifacts afterwards
compile_and_store(out, name) ==
    IF ~compile_to_wat(out).ok
    THEN [result |-> CompilerError(to_string(compile_to_wat(out).err)),
          artifacts |-> artifacts]
    ELSE [result |-> Ok, artifacts |-> store(artifacts, name, compile_to_wat(out).wat)]

\* the name map functions are added under: one that has no artifact yet
CompileNames == {"missing"}

\* the AddMapFn commands the front end has sent so far
RECURSIVE AddMapFnCount(_)
AddMapFnCount(s) ==
    IF s = <<>> THEN 0
    ELSE (IF Head(s).kind = "AddMapFn" THEN 1 ELSE 0) + AddMapFnCount(Tail(s))

AddMapFnSent ==
    AddMapFnCount(queue) + AddMapFnCount(replies) + (IF command.kind = "AddMapFn" THEN 1 ELSE 0)

\* add_map_function sends an AddMapFn command to the command loop
SendAddMapFn ==
    /\ pc # "panicked"
    /\ arrivals < MaxCommands
    /\ AddMapFnSent < MaxCompiles
    /\ \E name \in CompileNames :
        queue' = Append(queue, AddMapFnCommand(arrivals + 1, name))
    /\ arrivals' = arrivals + 1
    /\ UNCHANGED <<caller_vars, runtime_vars, container_vars, codec_vars, file_vars, command, pc,
                   to_send, query_channel, rows, replies>>

\* the loop receives an AddMapFn command: CodeRunner::new, or the panic of
\* its expect; then compile_and_store on what the compiler gives, and the
\* result goes to the responder
ReceiveAddMapFn ==
    /\ pc = "loop"
    /\ command = NoCommand
    /\ result = NotCalled
    /\ queue # <<>>
    /\ \E got \in {recv(queue)} :
        /\ got.command.kind = "AddMapFn"
        /\ queue' = got.rest
        /\ IF ~CodeRunner_new.ok
           THEN /\ pc' = "panicked"
                /\ command' = got.command
                /\ UNCHANGED <<artifacts, compiled, replies>>
           ELSE \E out \in Outputs :
                /\ artifacts' = compile_and_store(out, got.command.fn_name).artifacts
                /\ compiled' = Append(compiled, [name |-> got.command.fn_name, out |-> out])
                /\ replies' = Append(replies,
                        Reply(got.command, compile_and_store(out, got.command.fn_name).result, <<>>))
                /\ command' = NoCommand
                /\ pc' = after_send(got.command.seq \notin dropped)
    /\ UNCHANGED <<caller_vars, compiler, container_vars, codec_vars, file_vars, arrivals, to_send,
                   query_channel, rows>>

SendCompile == SendFrom(CancelRequests, CompileNames)

NextCompile ==
    \/ SendCompile
    \/ SendAddMapFn
    \/ ReceiveIndex
    \/ Respond
    \/ ReceiveAddMapFn
    \/ ReceiveInvokeMap
    \/ QuerySend
    \/ QueryReturn
    \/ Drain
    \/ ReplyRows
    \/ Reopen

SpecCompile == InitLoop /\ [][NextCompile]_vars

\* the process is started with ASM_SCRIPT_COMPILER_PATH set, or without it
InitEnv ==
    \E configured \in BOOLEAN :
        Started([columns |-> TwoColumns, add_timestamp_column |-> FALSE], configured)

SpecEnv == InitEnv /\ [][NextCompile]_vars

\* ------------------------------------------- filters over stamped rows
\* ColumnFrame::get: the cell under the first column of that name, if any
get(frame, column_name) ==
    IF \E i \in 1..Len(frame.column_names) : frame.column_names[i] = column_name
    THEN [some |-> TRUE,
          cell |-> frame.column_values[
                     CHOOSE i \in 1..Len(frame.column_names) :
                        /\ frame.column_names[i] = column_name
                        /\ \A j \in 1..(i - 1) : frame.column_names[j] # column_name]]
    ELSE [some |-> FALSE, cell |-> CellInt(0)]

\* the filter "odd" over the rows of a container with a timestamp column
SendStamp == SendFrom(CancelRequests, {"odd"})

NextStamp ==
    \/ SendStamp
    \/ ReceiveIndex
    \/ Respond
    \/ ReceiveInvokeMap
    \/ QuerySend
    \/ QueryReturn
    \/ Drain
    \/ ReplyRows
    \/ Reopen

InitStamp == Opened([columns |-> TwoColumns, add_timestamp_column |-> TRUE])

SpecStamp == InitStamp /\ [][NextStamp]_vars

\* ------------------------------------------------------ the web front end
\* StatusCode::OK, UNPROCESSABLE_ENTITY and INTERNAL_SERVER_ERROR
StatusOk == 200
StatusUnprocessableEntity == 422
StatusInternalServerError == 500

\* what resp_rx.await gives index_handler: the result the loop sent, or an
\* error when the responder was dropped without a send
Received(res) == [received |-> TRUE, result |-> res]
Lost == [received |-> FALSE, result |-> NotCalled]

\* index_handler: the status of the response it builds from what it received
index_handler(reply) ==
    IF ~reply.received THEN StatusInternalServerError
    ELSE IF reply.result = Ok THEN StatusOk
    ELSE StatusUnprocessableEntity

ReceiveWeb == ReceiveFrom(RestartRequests)

\* the loop sends the result and index_handler answers its request
RespondWeb == RespondTo /\ response' = index_handler(Received(result))

NextWeb == ReceiveWeb \/ RespondWeb

SpecWeb == Init /\ [][NextWeb]_vars

\* ------------------------------------------ a process that dies in index
ReceiveCrash == ReceiveFrom(CancelRequests)

\* the process dies in Container::index when the first at - 1 of its writes
\* (the staged appends in order, then the counter) have been done, and is
\* started again on the directory
Crash ==
    /\ result = NotCalled
    /\ command = NoCommand
    /\ queue = <<>>
    /\ opens < MaxOpens
    /\ index_counter < MaxRows
    /\ \E p \in CancelRequests : \E now \in ClockRead(p) : \E at \in 1..IoOps(p) :
        \E died \in {index(p, now, at)} :
        \E out \in {new_on(config, died.columns, died.file)} :
            /\ columns' = out.columns
            /\ column_names_ordered' = out.names
            /\ layout_file' = out.layout
            /\ index_counter' = out.counter
            /\ auto_index_file' = died.file
            /\ assigned' = IF at > 1 THEN assigned \cup {next(index_counter)} ELSE assigned
            /\ since_write' = IF at > 1 THEN 1 ELSE since_write + 1
    /\ opens' = opens + 1
    /\ UNCHANGED <<config, params, result, faults, codec_vars, file_vars, loop_vars,
                   caller_vars, runtime_vars>>

NextCrash == ReceiveCrash \/ Respond \/ Crash \/ Reopen

SpecCrash == Init /\ [][NextCrash]_vars

\* ------------------------------------------------------ the codec alone
\* cells of every variant: integers around the byte boundaries of 32 bits;
\* the f64 patterns of 1.5, 7.0, 0.0, -0.0, pi, infinity, a NaN and the
\* smallest subnormal; the strings "", "a", "ab", "a\0", e-acute, the euro
\* sign and an emoji; both booleans
SomeCells ==
    {CellInt(n) : n \in {0, 1, -1, 2, 7, 127, 128, 255, 256, -256, 65535, 65536,
                         16777216, 2147483647, -2147483647, -2147483647 - 1}}
    \cup {CellFloat(bits) : bits \in
            { <<63, 248, 0, 0, 0, 0, 0, 0>>, <<64, 28, 0, 0, 0, 0, 0, 0>>,
              <<0, 0, 0, 0, 0, 0, 0, 0>>, <<128, 0, 0, 0, 0, 0, 0, 0>>,
              <<64, 9, 33, 251, 84, 68, 45, 24>>, <<127, 240, 0, 0, 0, 0, 0, 0>>,
              <<127, 248, 0, 0, 0, 0, 0, 1>>, <<0, 0, 0, 0, 0, 0, 0, 1>> }}
    \cup {CellString(bytes) : bytes \in
            { <<>>, <<97>>, <<97, 98>>, <<97, 0>>, <<195, 169>>, <<226, 130, 172>>,
              <<240, 159, 152, 128>> }}
    \cup {CellBoolean(b) : b \in BOOLEAN}

\* records as a file may hold them: Boolean payloads 0, 1, 2, 2^32 + 1, 1 with
\* a ninth byte, -1; payloads that are too short; bytes that are not UTF-8;
\* tags of no variant
SomeRecords ==
    {[tag |-> TAG_BOOL, bytes |-> bytes] : bytes \in
        { <<0, 0, 0, 0, 0, 0, 0, 0>>, <<1, 0, 0, 0, 0, 0, 0, 0>>,
          <<2, 0, 0, 0, 0, 0, 0, 0>>, <<1, 0, 0, 0, 1, 0, 0, 0>>,
          <<1, 0, 0, 0, 0, 0, 0, 0, 9>>, <<255, 255, 255, 255, 255, 255, 255, 255>>,
          <<1>>, <<>> }}
    \cup {[tag |-> TAG_I64, bytes |-> <<1, 2>>], [tag |-> TAG_F64, bytes |-> <<1, 2, 3>>],
          [tag |-> TAG_I64, bytes |-> <<1, 0, 0, 0, 0, 0, 0, 0>>]}
    \cup {[tag |-> TAG_STR, bytes |-> bytes] : bytes \in
            { <<255>>, <<195>>, <<237, 160, 128>>, <<192, 128>>, <<97, 128>> }}
    \cup {[tag |-> t, bytes |-> <<1, 0, 0, 0, 0, 0, 0, 0>>] : t \in {0, 5, 255}}

\* a cell is handed to the codec
TakeCell ==
    /\ original = NoCell
    /\ encoded = NotEncoded
    /\ \E c \in SomeCells : original' = c
    /\ UNCHANGED <<caller_vars, runtime_vars, container_vars, file_vars, loop_vars, encoded, decoded, external, converted>>

\* Cell::to_bytes of the cell
Encode ==
    /\ original # NoCell
    /\ encoded = NotEncoded
    /\ encoded' = to_bytes(original)
    /\ UNCHANGED <<caller_vars, runtime_vars, container_vars, file_vars, loop_vars, original, decoded, external, converted>>

\* a record that was read from a file is handed to the codec
TakeRecord ==
    /\ original = NoCell
    /\ encoded = NotEncoded
    /\ \E r \in SomeRecords : encoded' = r
    /\ UNCHANGED <<caller_vars, runtime_vars, container_vars, file_vars, loop_vars, original, decoded, external, converted>>

\* Cell::from_bytes of the tag and the payload
Decode ==
    /\ encoded # NotEncoded
    /\ decoded = NotDecoded
    /\ decoded' = from_bytes(encoded.tag, encoded.bytes)
    /\ UNCHANGED <<caller_vars, runtime_vars, container_vars, file_vars, loop_vars, original, encoded, external, converted>>

NextCodec == TakeCell \/ Encode \/ TakeRecord \/ Decode

SpecCodec == Init /\ [][NextCodec]_vars

\* ------------------------------------------- one column file, field by field
\* Column::insert: the record it writes at the end of the file -- checksum,
\* tag, length of the payload, payload
write_record(c) ==
    LET enc == to_bytes(c) IN
    [checksum |-> checksum(enc.bytes), tag |-> enc.tag,
     len |-> Len(enc.bytes), bytes |-> enc.bytes]

\* a variant of process_record that does not compare the checksums
process_record_unchecked(rec) ==
    LET c == from_bytes(rec.tag, rec.bytes) IN
    IF c = NoValue THEN Panicked ELSE c

\* Column::process_record on a complete record: it panics when the CRC of the
\* payload is not the stored checksum, and when from_bytes returns None
process_record(rec) ==
    IF checksum(rec.bytes) # rec.checksum THEN Panicked
    ELSE LET c == from_bytes(rec.tag, rec.bytes) IN
         IF c = NoValue THEN Panicked ELSE c

\* Column::load: the records in file order, each pushed to entries
RECURSIVE load_file(_, _)
load_file(file, entries) ==
    IF file = <<>> THEN [panic |-> FALSE, entries |-> entries]
    ELSE LET c == process_record(Head(file)) IN
         IF c = Panicked THEN [panic |-> TRUE, entries |-> <<>>]
         ELSE load_file(Tail(file), Append(entries, c))

\* one cell of every variant
FileCells ==
    { CellInt(7), CellBoolean(TRUE), CellString(<<97>>),
      CellFloat(<<63, 248, 0, 0, 0, 0, 0, 0>>) }

\* what may happen to a record on disk: a byte of the payload, a byte of the
\* checksum or the tag changes
Damages == {"payload", "checksum", "tag"}

Damaged(rec, d) ==
    CASE d = "payload" -> [rec EXCEPT !.bytes[1] = (@ + 1) % 256]
      [] d = "checksum" -> [rec EXCEPT !.checksum[4] = (@ + 1) % 256]
      [] d = "tag" -> [rec EXCEPT !.tag = (@ % 4) + 1]

\* Column::insert of one cell
AppendCell ==
    /\ loaded = NotLoaded
    /\ Len(raw) < MaxRecords
    /\ \E c \in FileCells : raw' = Append(raw, write_record(c))
    /\ UNCHANGED <<caller_vars, runtime_vars, container_vars, codec_vars, loop_vars, loaded,
                   disk_vars>>

\* the disk damages one record of a file that was sound
Damage ==
    /\ loaded = NotLoaded
    /\ \A i \in 1..Len(raw) : raw[i] \in {write_record(c) : c \in FileCells}
    /\ \E i \in 1..Len(raw), d \in Damages : raw' = [raw EXCEPT ![i] = Damaged(@, d)]
    /\ UNCHANGED <<caller_vars, runtime_vars, container_vars, codec_vars, loop_vars, loaded,
                   disk_vars>>

\* Column::load after Column::new
LoadFile ==
    /\ loaded = NotLoaded
    /\ loaded' = load_file(raw, <<>>)
    /\ UNCHANGED <<caller_vars, runtime_vars, container_vars, codec_vars, loop_vars, raw,
                   disk_vars>>

\* the process ends
CloseFile ==
    /\ loaded # NotLoaded
    /\ loaded' = NotLoaded
    /\ UNCHANGED <<caller_vars, runtime_vars, container_vars, codec_vars, loop_vars, raw,
                   disk_vars>>

NextColumnFile == AppendCell \/ Damage \/ LoadFile \/ CloseFile

SpecColumnFile == Init /\ [][NextColumnFile]_vars

\* --------------------------------------------- one column file, byte by byte
\* write_u32::<LittleEndian>
write_u32(n) == [i \in 1..4 |-> ByteOf(n, i - 1)]

\* read_u32::<LittleEndian> of four bytes.  Values are held in 32 bits here:
\* a length of 2^31 or more is read as the largest number, which like it is
\* beyond the end of every file
read_u32(data) ==
    IF data[4] >= 128 THEN 2147483647
    ELSE data[1] + 256 * data[2] + 65536 * data[3] + 16777216 * data[4]

\* the bytes Column::insert writes for a record: checksum, tag and length
\* little-endian, then the payload
record_bytes(rec) ==
    Reverse(rec.checksum) \o << rec.tag >> \o write_u32(rec.len) \o rec.bytes

\* a variant of insert_offset that returns the position after the write
insert_offset_after(before, after) == after

\* Column::insert returns the position it asked for before seeking to the end
insert_offset(before, after) == before

\* Column::load over the bytes of the file.  Fewer than nine bytes left make
\* one of the three header reads fail with UnexpectedEof, and the loop ends.
\* take(val_len).read_to_end returns the bytes that are there, without an
\* error when they are fewer than val_len: the build with debug assertions
\* panics on the length, the other goes on to the checksum.
RECURSIVE load_bytes(_, _, _)
load_bytes(data, entries, debug_assertions) ==
    IF Len(data) < 9 THEN [panic |-> FALSE, entries |-> entries]
    ELSE LET val_len == read_u32(SubSeq(data, 6, 9))
             taken == IF Len(data) - 9 < val_len THEN Len(data) - 9 ELSE val_len
             c == process_record([checksum |-> Reverse(SubSeq(data, 1, 4)),
                                  tag |-> data[5], len |-> val_len,
                                  bytes |-> SubSeq(data, 10, 9 + taken)])
         IN  IF taken < val_len /\ debug_assertions THEN [panic |-> TRUE, entries |-> <<>>]
             ELSE IF c = Panicked THEN [panic |-> TRUE, entries |-> <<>>]
             ELSE load_bytes(SubSeq(data, 10 + taken, Len(data)), Append(entries, c),
                             debug_assertions)

\* the bytes of the file: of every record written, the bytes that reached it
RECURSIVE Disk(_)
Disk(written) ==
    IF written = <<>> THEN <<>>
    ELSE Disk(SubSeq(written, 1, Len(written) - 1))
         \o SubSeq(record_bytes(written[Len(written)].rec), 1, written[Len(written)].kept)

\* an integer, a one-byte string and the empty string
DiskCells == { CellInt(7), CellString(<<97>>), CellString(<<>>) }

\* Column::insert on an open column
InsertCell ==
    /\ handle \in {"fresh", "loaded"}
    /\ Len(appends) < MaxRecords
    /\ \E c \in DiskCells :
        /\ appends' = Append(appends, [cell |-> c, rec |-> write_record(c),
                                       kept |-> Len(record_bytes(write_record(c)))])
        /\ offset' = insert_offset(position, Len(Disk(appends')))
        /\ position' = Len(Disk(appends'))
    /\ UNCHANGED <<caller_vars, runtime_vars, container_vars, codec_vars, loop_vars, raw,
                   loaded, handle, held>>

\* the process dies in Column::insert when only the first bytes of the
\* record have reached the file
Tear ==
    /\ handle \in {"fresh", "loaded"}
    /\ Len(appends) < MaxRecords
    /\ \A i \in 1..Len(appends) : appends[i].kept = Len(record_bytes(appends[i].rec))
    /\ \E c \in DiskCells : \E n \in 1..(Len(record_bytes(write_record(c))) - 1) :
        appends' = Append(appends, [cell |-> c, rec |-> write_record(c), kept |-> n])
    /\ handle' = "closed"
    /\ held' = <<>>
    /\ position' = 0
    /\ offset' = NoOffset
    /\ UNCHANGED <<caller_vars, runtime_vars, container_vars, codec_vars, loop_vars, raw,
                   loaded>>

\* the process ends
CloseDisk ==
    /\ handle \in {"fresh", "loaded"}
    /\ handle' = "closed"
    /\ held' = <<>>
    /\ position' = 0
    /\ offset' = NoOffset
    /\ UNCHANGED <<caller_vars, runtime_vars, container_vars, codec_vars, loop_vars, raw,
                   loaded, appends>>

\* the process starts: Column::new, then Column::load in a build with or
\* without debug assertions
LoadDisk ==
    /\ handle = "closed"
    /\ \E debug_assertions \in BOOLEAN :
        \E out \in {load_bytes(Disk(appends), <<>>, debug_assertions)} :
            /\ handle' = IF out.panic THEN "panicked" ELSE "loaded"
            /\ held' = out.entries
            /\ position' = IF out.panic THEN 0 ELSE Len(Disk(appends))
    /\ offset' = NoOffset
    /\ UNCHANGED <<caller_vars, runtime_vars, container_vars, codec_vars, loop_vars, raw,
                   loaded, appends>>

NextDisk == InsertCell \/ Tear \/ CloseDisk \/ LoadDisk

SpecDisk == Init /\ [][NextDisk]_vars

\* ------------------------------------------- one column of every data type
\* external values of every kind: null, booleans, 0, 7, 2^63, -1, 1.5, 7.0,
\* "", "a", an array and an object
EveryValue ==
    { JNull, JBool(TRUE), JBool(FALSE),
      JPosInt(0, 0), JPosInt(0, 7), JPosInt(1, 0), JNegInt(-1),
      JFloat(<<63, 248, 0, 0, 0, 0, 0, 0>>), JFloat(<<64, 28, 0, 0, 0, 0, 0, 0>>),
      JString(<<>>), JString(<<97>>), JArray, JObject }

OneColumn(data_type) == << [name |-> "c", data_type |-> data_type] >>

OneValueParams == {[fields |-> <<"c">>, values |-> <<v>>] : v \in EveryValue}

InitOneColumn ==
    \E t \in DataTypes, b \in BOOLEAN :
        Opened([columns |-> OneColumn(t), add_timestamp_column |-> b])

ReceiveOneValue == ReceiveFrom(OneValueParams)

NextOneColumn == ReceiveOneValue \/ Respond

SpecOneColumn == InitOneColumn /\ [][NextOneColumn]_vars

\* ------------------------------------------------------------ properties
IsError(r) == r.kind \notin {"Ok", "NotCalled"}

ValidationErrors == {"FieldCountMismatch", "InvalidFields"}

\* the cells of the id column's log
IdCells == Stored(find_column("id"))

\* the layout's columns without id and without the configured timestamp
UserColumnCount ==
    Len(columns) - 1 - (IF config.add_timestamp_column THEN 1 ELSE 0)

Max(S) == CHOOSE x \in S : \A y \in S : y <= x

\* C1: whenever an index call returns success, every column of the layout
\* (id, the user columns, timestamp) holds the same number of cells, and that
\* number is the counter's current value -- for every accepted field list.
C1_ColumnsAtCounter ==
    result.kind = "Ok" =>
        \A i \in 1..Len(columns) : Len(columns[i].f) = index_counter

\* C2: an index call that returns an error of any kind leaves every column
\* at the length it had and the counter at the value it had.
C2_FailedIndexChangesNothing ==
    [][IsError(result') =>
        /\ index_counter' = index_counter
        /\ \A i \in 1..Len(columns) :
            /\ Len(columns'[i].f) = Len(columns[i].f)
            /\ Len(columns'[i].entries) = Len(columns[i].entries)]_vars

\* C3: a call rejected with InvalidDataType writes no cell to any column (not
\* to id, not to timestamp, not to the columns of earlier valid fields) and the
\* counter, in memory and on disk, is what it was before the call.
C3_TypeRejectionWritesNothing ==
    [][result'.kind = "InvalidDataType" =>
        /\ columns' = columns
        /\ index_counter' = index_counter
        /\ auto_index_file' = auto_index_file]_vars

\* a type rejection at the second field, after a valid first field, on a store
\* that already holds a row and stamps rows
C3_Witness ==
    /\ result.kind = "InvalidDataType"
    /\ config.add_timestamp_column
    /\ Len(params.fields) = 2
    /\ is_compatible(find_column(params.fields[1]).data_type, params.values[1])
    /\ ~is_compatible(find_column(params.fields[2]).data_type, params.values[2])
    /\ result.value = params.values[2]
    /\ Len(find_column("id").f) > 0

\* C4: a call rejected by validation (FieldCountMismatch, InvalidFields)
\* touches nothing: the counter is not advanced, no column changes and the
\* counter sidecar is not rewritten.
C4_ValidationRejectionTouchesNothing ==
    [][result'.kind \in ValidationErrors =>
        UNCHANGED <<columns, index_counter, auto_index_file>>]_vars

\* both validation errors, on a store that already holds a committed row
C4_Witness ==
    /\ result.kind \in ValidationErrors
    /\ index_counter > 0
    /\ Persisted > 0

\* C5: with successes, validation failures and type failures only, the id
\* column reads 1, 2, ..., n where n is the counter: the k-th successful call
\* writes id k and no rejected call consumes an id.
C5_IdsAreOneToN ==
    faults = 0 => IdCells = [i \in 1..index_counter |-> CellInt(i)]

\* the identifiers held by the id column's log
IdValues == { IdCells[i].i : i \in 1..Len(IdCells) }

\* C6: after every successful index call the counter in the sidecar is the
\* largest row identifier written to the id column, and across any sequence of
\* index calls the counter in the sidecar never decreases.
C6_PersistedIsLargestId ==
    [][/\ result'.kind = "Ok" =>
            (IdValues' # {} /\ Persisted' = Max(IdValues'))
       /\ Persisted' >= Persisted]_vars

\* the same, of the identifiers index took from the counter and wrote: after
\* a success the sidecar holds the largest of them, and it never decreases
PersistedIsLargestAllocated ==
    [][/\ result'.kind = "Ok" => (assigned' # {} /\ Persisted' = Max(assigned'))
       /\ Persisted' >= Persisted]_vars

\* C7: with the timestamp configured, a field list of the expected length that
\* names "timestamp" fails with InvalidFields(["timestamp"]) and writes nothing.
C7_TimestampIsReserved ==
    [][(/\ result' # NotCalled
        /\ config.add_timestamp_column
        /\ Len(params'.fields) = Len(config.columns)
        /\ Contains(params'.fields, "timestamp")) =>
            /\ result' = InvalidFields(<<"timestamp">>)
            /\ UNCHANGED <<columns, index_counter, auto_index_file>>]_vars

\* the caller of the test: ["url", "timestamp"] with two values
C7_Witness ==
    /\ config.add_timestamp_column
    /\ params.fields = <<"url", "timestamp">>
    /\ Len(params.values) = 2
    /\ result = InvalidFields(<<"timestamp">>)

\* C8: the id column is never supplied by the caller: a call that names "id"
\* does not succeed, and a successful call appends exactly one cell to the id
\* column, the value taken from the counter.
C8_IdIsNeverCallerSupplied ==
    [][result'.kind = "Ok" =>
        /\ ~Contains(params'.fields, "id")
        /\ IdCells' = Append(IdCells, CellInt(index_counter'))]_vars

\* the type of the one user column
ColumnType == config.columns[1].data_type

IsInteger(j) == j.k = "Number" /\ j.n \in {"PosInt", "NegInt"}

\* the kinds paired with each type: Int with integers, Float with non-integer
\* numbers, String with strings, Boolean with booleans
KindMatches(data_type, j) ==
    CASE data_type = "Int" -> IsInteger(j)
      [] data_type = "Float" -> j.k = "Number" /\ ~IsInteger(j)
      [] data_type = "String" -> j.k = "String"
      [] data_type = "Boolean" -> j.k = "Bool"

\* an integer above 2^63 - 1
AboveI64(j) == IsInteger(j) /\ j.n = "PosInt" /\ j.hi = 1

\* C9 as stated: index accepts a value exactly when its kind matches the
\* column's type, and rejects every other value with
\* InvalidDataType(value, declared type).
C9_AcceptsExactlyMatchingKind ==
    result # NotCalled =>
        IF KindMatches(ColumnType, params.values[1])
        THEN result.kind # "InvalidDataType"
        ELSE result = InvalidDataType(params.values[1], ColumnType)

\* C9 amended: as stated, except that an Int column accepts only the integers
\* of the signed 64-bit range; an integer above 2^63 - 1 is rejected by every
\* type with InvalidDataType(value, declared type).
C9_AcceptsMatchingKindInRange ==
    result # NotCalled =>
        IF KindMatches(ColumnType, params.values[1]) /\ ~AboveI64(params.values[1])
        THEN result.kind # "InvalidDataType"
        ELSE result = InvalidDataType(params.values[1], ColumnType)

\* 2^63 offered to an Int column
C9_Witness ==
    /\ ColumnType = "Int"
    /\ params.values = << JPosInt(1, 0) >>
    /\ result = InvalidDataType(JPosInt(1, 0), "Int")

\* the field names that name no column, in the caller's order
RECURSIVE UnknownNames(_)
UnknownNames(fields) ==
    IF fields = <<>> THEN <<>>
    ELSE (IF HasColumn(Head(fields)) THEN <<>> ELSE << Head(fields) >>)
         \o UnknownNames(Tail(fields))

\* C10: validation classifies a request in this order: a field count other
\* than the number of user columns is FieldCountMismatch; else a configured
\* timestamp that is named is InvalidFields(["timestamp"]); else unknown names
\* are InvalidFields of exactly those names in caller order; else fields and
\* values of different lengths are FieldCountMismatch; otherwise it passes.
C10_ValidationOrder ==
    result # NotCalled =>
        IF Len(params.fields) # UserColumnCount
        THEN result.kind = "FieldCountMismatch"
        ELSE IF config.add_timestamp_column /\ Contains(params.fields, "timestamp")
        THEN result = InvalidFields(<<"timestamp">>)
        ELSE IF UnknownNames(params.fields) # <<>>
        THEN result = InvalidFields(UnknownNames(params.fields))
        ELSE IF Len(params.fields) # Len(params.values)
        THEN result.kind = "FieldCountMismatch"
        ELSE result.kind \notin ValidationErrors

\* two unknown names come back in the caller's order, before the lengths of
\* fields and values are compared
C10_Witness ==
    /\ ~config.add_timestamp_column
    /\ params.fields = <<"timestamp", "nope">>
    /\ Len(params.values) # Len(params.fields)
    /\ result = InvalidFields(<<"timestamp", "nope">>)

\* the layout a schema asks for: id, the user columns in schema order, then
\* timestamp when it is configured
ExpectedLayout(cfg) ==
    << [name |-> "id", data_type |-> "Int"] >>
    \o cfg.columns
    \o (IF cfg.add_timestamp_column
        THEN << [name |-> "timestamp", data_type |-> "Int"] >> ELSE <<>>)

C12_RestartEquivalence ==
    [][(opens' # opens /\ since_write >= 1) =>
            all_rows(columns') = all_rows(columns)]_vars

\* the second of two opens in a row, on a store that holds rows
C12_Witness ==
    /\ since_write >= 2
    /\ ~all_rows(columns).panic
    /\ Len(all_rows(columns).rows) >= 1

\* C13: for every column, after any sequence of loads and appends, the vector
\* in memory is the sequence of cells the records of the column file decode
\* to, from the start of the file to its end: an append both writes the record
\* and pushes the cell.
C13_MemoryIsDecodedFile ==
    \A i \in 1..Len(columns) : columns[i].entries = Stored(columns[i])

\* C14: decoding the (tag, payload) that encoding a cell produced gives a
\* cell equal to it, for Int, Float, String and Boolean cells; so both
\* booleans survive and an Int never comes back as a Boolean or a Boolean as
\* an Int; and a decoded Boolean is true iff its 64-bit payload is 1.
C14_CodecRoundTrip ==
    /\ (original # NoCell /\ decoded # NotDecoded) => decoded = original
    /\ (decoded # NotDecoded /\ decoded # NoValue /\ encoded.tag = TAG_BOOL) =>
            /\ decoded.t = "Boolean"
            /\ decoded.b <=> (SubSeq(encoded.bytes, 1, 8) = <<1, 0, 0, 0, 0, 0, 0, 0>>)

\* a string that is not ASCII came back as it was
C14_Witness ==
    /\ original = CellString(<<226, 130, 172>>)
    /\ encoded = [tag |-> TAG_STR, bytes |-> <<226, 130, 172>>]
    /\ decoded = original

\* CRC-32/CKSUM of the payloads of 7, true, "a" and 1.5, computed outside
KnownChecksum(bytes) ==
    CASE bytes = <<7, 0, 0, 0, 0, 0, 0, 0>> -> <<121, 91, 244, 62>>
      [] bytes = <<1, 0, 0, 0, 0, 0, 0, 0>> -> <<164, 94, 35, 53>>
      [] bytes = <<97>> -> <<87, 155, 36, 223>>
      [] bytes = <<0, 0, 0, 0, 0, 0, 248, 63>> -> <<106, 242, 117, 97>>

\* the stored checksum of a record is the CRC of its payload
Sound(rec) == rec.checksum = checksum(rec.bytes)

\* C15: every record an append writes has a length field equal to the number
\* of payload bytes and a checksum field equal to the CRC of exactly the
\* payload bytes; and a load that meets a complete record whose checksum is
\* not the CRC of its payload ends in a panic, with no vector to read.
C15_FramingAndChecksum ==
    /\ [][Len(raw') = Len(raw) + 1 =>
            LET rec == raw'[Len(raw')] IN
            /\ rec.len = Len(rec.bytes)
            /\ rec.checksum = KnownChecksum(rec.bytes)]_vars
    /\ [](loaded # NotLoaded =>
            IF \E i \in 1..Len(raw) : ~Sound(raw[i])
            THEN loaded = [panic |-> TRUE, entries |-> <<>>]
            ELSE loaded.panic \/ Len(loaded.entries) = Len(raw))

\* a load that met a sound record and then one whose payload had changed
C15_Witness ==
    /\ Len(raw) = 2
    /\ Sound(raw[1])
    /\ ~Sound(raw[2])
    /\ raw[2].len = Len(raw[2].bytes)
    /\ loaded = [panic |-> TRUE, entries |-> <<>>]


\* the successful Index commands answered before the k-th reply
OkIndexBefore(k) ==
    Cardinality({j \in 1..(k - 1) :
                    replies[j].kind = "Index" /\ replies[j].result.kind = "Ok"})

\* Container::query waits in a send that nothing will ever make room for
QueryBlocked ==
    pc = "query" /\ to_send # <<>> /\ Len(query_channel) >= QueryCapacity

\* C16: after index commands of which n succeeded, an InvokeMap whose filter
\* returns true for every row replies with exactly n frames, for every n --
\* n = 0 and n above the capacity of the query channel included, so the query
\* is never left waiting for room in that channel.
C16_QuerySnapshot ==
    /\ \A k \in 1..Len(replies) :
            (replies[k].kind = "InvokeMap" /\ replies[k].fn_name = "all") =>
                Len(replies[k].rows) = OkIndexBefore(k)
    /\ ~QueryBlocked

\* the rows of frames for which the function fn_name returned nonzero
Kept(frames, fn_name) ==
    LET Nonzero(frame) ==
            LET r == execute_map(fn_name, frame) IN r.ok /\ r.value # 0
    IN  SelectSeq(frames, Nonzero)

\* an InvokeMap reply is sent in this step
InvokeMapReplied ==
    /\ Len(replies') = Len(replies) + 1
    /\ replies'[Len(replies')].kind = "InvokeMap"

\* C17: the InvokeMap reply is the subsequence of all_rows(), in row order, of
\* the rows for which the named function returned a nonzero result: each such
\* row once, no row with a zero result or a failure, relative order kept.
C17_ReplyIsFilteredRows ==
    [][InvokeMapReplied =>
          replies'[Len(replies')].rows =
              Kept(all_rows(columns).rows, replies'[Len(replies')].fn_name)]_vars

\* two rows were scanned; "all" was answered with both, in the order of their
\* ids, and "odd" with the first alone
C17_Witness ==
    /\ Len(all_rows(columns).rows) = 2
    /\ \E k \in 1..Len(replies) :
            /\ replies[k].fn_name = "all"
            /\ Len(replies[k].rows) = 2
            /\ replies[k].rows[1].column_values[1] = CellInt(1)
            /\ replies[k].rows[2].column_values[1] = CellInt(2)
    /\ \E k \in 1..Len(replies) :
            /\ replies[k].fn_name = "odd"
            /\ Len(replies[k].rows) = 1
            /\ replies[k].rows[1].column_values[1] = CellInt(1)

\* C18: commands are processed strictly in arrival order: the replies sent
\* are those of the commands that arrived first, in that order; the command
\* being executed is the oldest unanswered one, so every command enqueued
\* before it has had its effect and its reply; and the container changes only
\* in the step that executes that command.
C18_ArrivalOrder ==
    /\ [](/\ \A k \in 1..Len(replies) : replies[k].seq = k
          /\ command # NoCommand => command.seq = Len(replies) + 1
          /\ \A i \in 1..Len(queue) : queue[i].seq > Len(replies))
    /\ [][(columns' # columns /\ opens' = opens) =>
              (/\ command = NoCommand
               /\ command'.kind = "Index"
               /\ command'.seq = Len(replies) + 1)]_vars

\* a command is being executed, an earlier one has been answered and two
\* later ones wait
C18_Witness ==
    /\ command # NoCommand
    /\ Len(replies) >= 1
    /\ Len(queue) >= 2

\* C19: Index and InvokeMap never interleave: from the start of an InvokeMap's
\* scan to its reply no index call is in progress and the container does not
\* change; so the reply to an InvokeMap whose filter keeps every row holds
\* exactly the rows of the insertions committed when the command was
\* received, one frame per committed id, in order.
C19_NoInterleavingSnapshot ==
    /\ [](pc \in {"query", "drain"} => result = NotCalled)
    /\ [][(pc = "query" \/ pc = "drain") =>
              (columns' = columns /\ index_counter' = index_counter)]_vars
    /\ [][(InvokeMapReplied /\ replies'[Len(replies')].fn_name = "all") =>
              [k \in 1..Len(replies'[Len(replies')].rows) |->
                    replies'[Len(replies')].rows[k].column_values[1]] = IdCells]_vars

\* C20: an Ok reply to an Index command is sent only after every staged
\* append of the row has been issued and the counter has been persisted: when
\* the caller receives Ok, no column lacks the row's cell and the sidecar does
\* not hold the previous value.
C20_OkAfterDurable ==
    [][(command.kind = "Index" /\ result.kind = "Ok" /\ result' = NotCalled) =>
          (/\ \A i \in 1..Len(columns) : Len(columns[i].f) >= index_counter
           /\ IdCells[Len(IdCells)] = CellInt(index_counter)
           /\ auto_index_file.exists
           /\ Persisted = index_counter)]_vars

\* a reply is sent in this step to a responder whose receiver is gone
SentToDropped ==
    /\ Len(replies') = Len(replies) + 1
    /\ replies'[Len(replies')].seq \in dropped

\* C21: when the caller has dropped its reply channel before the loop
\* replies, the loop goes on: nothing of the container is rolled back (the
\* columns, the counter and its sidecar stay as the command left them), the
\* loop is back at its receive with the queue as it was, so the commands
\* enqueued afterwards are processed and answered in their turn.
C21_DroppedReplyIsHarmless ==
    /\ [][SentToDropped =>
            (/\ columns' = columns
             /\ index_counter' = index_counter
             /\ auto_index_file' = auto_index_file
             /\ pc' = "loop"
             /\ command' = NoCommand
             /\ queue' = queue)]_vars
    /\ [](\A k \in 1..Len(replies) : replies[k].seq = k)

\* the first command was an Index whose caller had gone; its row is
\* committed, and a later command has been answered
C21_Witness ==
    /\ Len(replies) >= 2
    /\ 1 \in dropped
    /\ replies[1].kind = "Index"
    /\ replies[1].result = Ok
    /\ Len(IdCells) >= 1
    /\ Persisted >= 1
    /\ replies[2].seq \notin dropped

\* the drain loop takes a row on which the function fails
DrainsFailingRow ==
    /\ pc = "drain"
    /\ query_channel # <<>>
    /\ ~execute_map(command.fn_name, Head(query_channel)).ok
    /\ query_channel' # query_channel

\* C22: a filter error on one row of an InvokeMap skips that row alone: the
\* rows kept so far stay kept, the rows still in the channel stay to be
\* evaluated, the caller gets Ok with the rows that survived, and the loop is
\* back at its receive afterwards.
C22_FilterErrorSkipsRow ==
    /\ [][DrainsFailingRow =>
            (/\ rows' = rows
             /\ query_channel' = Tail(query_channel)
             /\ pc' = "drain"
             /\ command' = command)]_vars
    /\ [][InvokeMapReplied =>
            (/\ replies'[Len(replies')].result = Ok
             /\ \A k \in 1..Len(replies'[Len(replies')].rows) :
                    execute_map(replies'[Len(replies')].fn_name,
                                replies'[Len(replies')].rows[k]).ok
             /\ Len(replies'[Len(replies')].rows) =
                    Cardinality({n \in 1..Len(all_rows(columns).rows) :
                        LET r == execute_map(replies'[Len(replies')].fn_name,
                                             all_rows(columns).rows[n])
                        IN  r.ok /\ r.value # 0})
             /\ pc' = "loop"
             /\ command' = NoCommand)]_vars

\* the function failed on the first of two rows; the reply held the second,
\* and a later command has been answered
C22_Witness ==
    \E k \in 1..Len(replies) :
        /\ replies[k].fn_name = "even_or_trap"
        /\ Len(all_rows(columns).rows) = 2
        /\ Len(replies[k].rows) = 1
        /\ replies[k].rows[1].column_values[1] = CellInt(2)
        /\ Len(replies) > k

\* C23: when a crash interrupts an index call at any point, then on
\* restart no column has advanced past another: all loaded columns have the
\* same length and all_rows() does not fail on a length mismatch.
C23_CrashLeavesColumnsEven ==
    [][opens' # opens =>
          (/\ \A i \in 1..Len(columns') :
                    Len(columns'[i].entries) = Len(columns'[1].entries)
           /\ ~all_rows(columns').panic)]_vars

\* the file is a sequence of complete records and a last record cut short
TornTail ==
    /\ appends # <<>>
    /\ \A i \in 1..(Len(appends) - 1) :
            appends[i].kept = Len(record_bytes(appends[i].rec))
    /\ appends[Len(appends)].kept < Len(record_bytes(appends[Len(appends)].rec))

\* C24: Column.load tolerates a torn tail: for a file of complete records
\* followed by a last record cut at any byte (in the checksum, the tag, the
\* length or the payload), load ends without error or panic and the vector
\* in memory holds exactly the complete records before the torn one.
C24_TornTailTolerated ==
    [][(handle = "closed" /\ handle' # "closed" /\ TornTail) =>
          (/\ handle' = "loaded"
           /\ held' = [i \in 1..(Len(appends) - 1) |-> appends[i].cell])]_vars

\* the bytes a are the first bytes of b
IsPrefix(a, b) == Len(a) <= Len(b) /\ SubSeq(b, 1, Len(a)) = a

\* C30: column files are append-only: an append returns the offset at which
\* the new record begins, which is the length of the file just before; the
\* content before is a prefix, byte for byte, of the content after; for a
\* column that was loaded and for one opened without load on first
\* initialization.
C30_AppendOnly ==
    /\ [][(Len(appends') = Len(appends) + 1 /\ handle' # "closed") =>
            (/\ offset' = Len(Disk(appends))
             /\ SubSeq(Disk(appends'), offset' + 1, Len(Disk(appends'))) =
                    record_bytes(write_record(appends'[Len(appends')].cell)))]_vars
    /\ [][IsPrefix(Disk(appends), Disk(appends'))]_vars

\* an append to a column that was loaded from a file with a record and a torn
\* tail returned the length of that file
C30_Witness ==
    /\ handle = "loaded"
    /\ Len(appends) = 2
    /\ appends[1].kept < Len(record_bytes(appends[1].rec))
    /\ offset = appends[1].kept
    /\ offset > 0

\* C25: the outcome of an index request maps to the response by error
\* class: success gives 200; FieldCountMismatch, InvalidFields and
\* InvalidDataType give 422; IoError and IndexError give 500 -- an I/O
\* failure during commit is never reported as 422.
C25_StatusByErrorClass ==
    [][(result # NotCalled /\ result' = NotCalled) =>
          (/\ result.kind = "Ok" => response' = 200
           /\ result.kind \in {"FieldCountMismatch", "InvalidFields", "InvalidDataType"}
                => response' = 422
           /\ result.kind \in {"IoError", "IndexError"} => response' = 500)]_vars

\* the drain loop takes a row
DrainsRow == pc = "drain" /\ query_channel # <<>> /\ query_channel' # query_channel

\* the filter's verdict on a row when its argument is the row's timestamp
\* cell (every timestamp here is below 2^31, where narrowing to 32 bits
\* keeps the value)
ByTimestamp(fn_name, frame) ==
    /\ artifacts[fn_name].exists
    /\ get(frame, "timestamp").some
    /\ get(frame, "timestamp").cell.t = "Int"
    /\ ~traps(artifacts[fn_name].wat, get(frame, "timestamp").cell.i)
    /\ run(artifacts[fn_name].wat, get(frame, "timestamp").cell.i) # 0

\* C26: filter execution takes its argument from the row's timestamp cell:
\* a row without a timestamp cell, or with one that is not an integer, is an
\* error and not a crash (the row is not kept, the drain goes on); otherwise
\* the filter is called with the timestamp narrowed to 32 bits and the row is
\* kept exactly when it returns nonzero.
C26_ArgumentIsTimestamp ==
    [][DrainsRow =>
          (/\ pc' = "drain"
           /\ rows' = IF ByTimestamp(command.fn_name, Head(query_channel))
                      THEN Append(rows, Head(query_channel))
                      ELSE rows)]_vars

\* the loop has handled an AddMapFn command and answered it
AddMapFnReplied ==
    /\ Len(compiled') = Len(compiled) + 1
    /\ Len(replies') = Len(replies) + 1
    /\ replies'[Len(replies')].kind = "AddMapFn"

\* the bytes as they are, or with every invalid sequence replaced
Written(lossy, bytes) == IF lossy THEN from_utf8_lossy(bytes) ELSE bytes

\* the text ends with these bytes
Carries(text, bytes) ==
    /\ Len(text) >= Len(bytes)
    /\ SubSeq(text, Len(text) - Len(bytes) + 1, Len(text)) = bytes

\* the artifact of a name after the runs of a log: what the newest run that
\* exited with zero wrote, or what was there at the start; not known after a
\* run that a signal ended
RECURSIVE Newest(_, _, _)
Newest(log, name, lossy) ==
    IF log = <<>>
    THEN [known |-> TRUE, file |-> IF name \in MapFns THEN Artifact(<<name>>) ELSE NoArtifact]
    ELSE IF log[Len(log)].name # name THEN Newest(SubSeq(log, 1, Len(log) - 1), name, lossy)
    ELSE IF ~log[Len(log)].out.status.some THEN [known |-> FALSE, file |-> NoArtifact]
    ELSE IF log[Len(log)].out.status.code = 0
    THEN [known |-> TRUE, file |-> Artifact(Written(lossy, log[Len(log)].out.stdout))]
    ELSE Newest(SubSeq(log, 1, Len(log) - 1), name, lossy)

\* the filter in a file keeps a row
Keeps(file, row) ==
    /\ file.exists
    /\ from_file(file.wat)
    /\ row.column_values[1].t = "Int"
    /\ ~traps(file.wat, row.column_values[1].i)
    /\ run(file.wat, row.column_values[1].i) # 0

\* what compile_and_store does on a compiler that exited, and what the drain
\* loop runs afterwards
StoresAndRuns(lossy) ==
    /\ AddMapFnReplied /\ compiled'[Len(compiled')].out.status.some =>
         IF compiled'[Len(compiled')].out.status.code # 0
         THEN /\ replies'[Len(replies')].result.kind = "CompilerError"
              /\ Carries(replies'[Len(replies')].result.text,
                         Written(lossy, compiled'[Len(compiled')].out.stderr))
              /\ artifacts' = artifacts
         ELSE /\ replies'[Len(replies')].result = Ok
              /\ artifacts' = [artifacts EXCEPT ![compiled'[Len(compiled')].name] =
                     Artifact(Written(lossy, compiled'[Len(compiled')].out.stdout))]
    /\ DrainsRow /\ Newest(compiled, command.fn_name, lossy).known =>
         rows' = IF Keeps(Newest(compiled, command.fn_name, lossy).file, Head(query_channel))
                 THEN Append(rows, Head(query_channel))
                 ELSE rows

TakesWithoutCompiler ==
    /\ ~compiler
    /\ pc = "loop"
    /\ queue # <<>>
    /\ Head(queue).kind \in {"AddMapFn", "InvokeMap"}
    /\ queue' = Tail(queue)

\* C28: every accepted command gets exactly one reply and the command loop
\* keeps serving later commands whatever the outcome of an earlier one: the
\* loop task never terminates, no command is answered twice, and an AddMapFn
\* or InvokeMap issued while the compiler path is not configured is answered
\* with the error CompilerNotFound and leaves the loop at its receive.
C28_LoopKeepsServing ==
    /\ [](pc # "panicked")
    /\ [](\A i, j \in 1..Len(replies) : replies[i].seq = replies[j].seq => i = j)
    /\ [][TakesWithoutCompiler =>
            (/\ pc' = "loop"
             /\ command' = NoCommand
             /\ Len(replies') = Len(replies) + 1
             /\ replies'[Len(replies')].seq = Head(queue).seq
             /\ replies'[Len(replies')].result = CompilerNotFound)]_vars

\* the loop task can take a step of the InvokeMap it is in
InvokeMapCanStep == ENABLED (QuerySend \/ QueryReturn \/ Drain \/ ReplyRows)

\* C29: InvokeMap terminates for every row count: while the loop is in an
\* InvokeMap -- query sending the rows, or the drain loop receiving them --
\* it can always take its next step towards end-of-stream and the reply, also
\* when there are more rows than the query channel has room for.
C29_InvokeMapTerminates ==
    (command.kind = "InvokeMap" /\ (pc = "query" \/ pc = "drain")) => InvokeMapCanStep

\* a cell of that variant
IsCellOf(value, data_type) == "t" \in DOMAIN value /\ value.t = data_type

\* C31: after any sequence of index calls, every cell stored in a column --
\* decoded from its file or held in memory -- has the variant of the column's
\* declared type, and the id and timestamp columns are Int columns.
C31_CellsHaveDeclaredType ==
    \A i \in 1..Len(columns) :
        /\ \A k \in 1..Len(columns[i].f) :
                IsCellOf(Stored(columns[i])[k], columns[i].data_type)
        /\ \A k \in 1..Len(columns[i].entries) :
                IsCellOf(columns[i].entries[k], columns[i].data_type)
        /\ columns[i].name \in {"id", "timestamp"} => columns[i].data_type = "Int"

\* a Float column, an id column and a timestamp column with a cell each
C31_Witness ==
    /\ find_column("c").data_type = "Float"
    /\ HasColumn("timestamp")
    /\ \A i \in 1..Len(columns) : Len(columns[i].f) >= 1
    /\ IsCellOf(Stored(find_column("c"))[1], "Float")

\* a number that fits a 64-bit signed integer
FitsI64(j) == j.k = "Number" /\ (j.n = "NegInt" \/ (j.n = "PosInt" /\ j.hi = 0))

\* C32: from_external is a total classifier: null, arrays and objects give
\* none; booleans give Boolean; strings give String; a number that fits a
\* 64-bit signed integer gives Int with that value; every other number, an
\* unsigned integer above 2^63-1 included, gives Float; no input makes it
\* fail or abort.
C32_TotalClassifier ==
    converted # NotDecoded =>
        /\ converted # Panicked
        /\ external.k \in {"Null", "Array", "Object"} => converted = NoValue
        /\ external.k = "Bool" => converted = CellBoolean(external.b)
        /\ external.k = "String" => converted = CellString(external.s)
        /\ FitsI64(external) => converted = CellInt(external.v)
        /\ (external.k = "Number" /\ ~FitsI64(external)) => IsCellOf(converted, "Float")

\* C33: decode(tag, payload) is tag-dispatched and strict: tags 1, 2 and 4
\* succeed only when the payload is exactly 8 bytes long, a shorter and a
\* longer payload being decode errors; tag 3 succeeds exactly on valid UTF-8
\* of any length; every other tag gives a decode error value.
C33_DecodeIsStrict ==
    decoded # NotDecoded =>
        /\ encoded.tag \in {TAG_I64, TAG_F64, TAG_BOOL} =>
                (decoded # NoValue <=> Len(encoded.bytes) = 8)
        /\ encoded.tag = TAG_STR => (decoded # NoValue <=> IsUtf8(encoded.bytes))
        /\ encoded.tag \notin {TAG_I64, TAG_F64, TAG_STR, TAG_BOOL} => decoded = NoValue

\* C34: in every state reachable through Container::index -- successes,
\* validation failures, type failures and commit failures in any order -- the
\* counter is not negative, in memory and in the sidecar, and rollback is
\* invoked only after a next() of the same call: no call leaves the counter
\* lower than it found it.
C34_CounterNeverNegative ==
    /\ [](index_counter >= 0 /\ Persisted >= 0)
    /\ [][index_counter' >= index_counter]_vars

\* a type failure after a success: rollback took the counter from 2 back to 1
C34_Witness ==
    /\ result.kind = "InvalidDataType"
    /\ index_counter = 1
    /\ Persisted = 1

\* the loop takes an InvokeMap command and Container::query calls all_rows
TakesInvokeMap ==
    pc = "loop" /\ command = NoCommand /\ command'.kind = "InvokeMap"

\* every column holds n cells
CommonLength(n) == \A i \in 1..Len(columns) : Len(columns[i].entries) = n

\* C35: all_rows() yields exactly L frames, L being the common column length;
\* frame n holds, for every column of the layout in layout order, that
\* column's n-th cell under that column's name, one entry per column; when
\* the columns differ in length it fails fatally and yields no frame.
C35_FramesAlignColumns ==
    [][TakesInvokeMap =>
          IF CommonLength(Len(columns[1].entries))
          THEN /\ pc' = "query"
               /\ CommonLength(Len(to_send'))
               /\ \A n \in 1..Len(to_send') :
                    /\ Len(to_send'[n].column_names) = Len(columns)
                    /\ Len(to_send'[n].column_values) = Len(columns)
                    /\ \A i \in 1..Len(columns) :
                        /\ to_send'[n].column_names[i] = columns[i].name
                        /\ to_send'[n].column_values[i] = columns[i].entries[n]
          ELSE /\ pc' = "panicked"
               /\ to_send' = <<>>]_vars

\* two rows were loaded and all_rows made two frames of three cells each
C35_Witness ==
    /\ pc = "query"
    /\ Len(to_send) = 2
    /\ CommonLength(2)
    /\ to_send[2].column_names = <<"id", "url", "points">>
    /\ to_send[2].column_values = <<CellInt(2), CellString(<<97>>), CellInt(7)>>

\* C36: row identifiers are unique and strictly increasing in the id column
\* across the whole life of a store, restarts and crashes inside an index
\* call included: no insert is given an id that is in the id column already.
C36_IdsStrictlyIncrease ==
    \A i, j \in 1..Len(IdCells) : i < j => IdCells[i].i < IdCells[j].i

\* the file holds complete records, one record cut short at t, and after it
\* the complete records that were appended once the torn file had been loaded
AppendedAfterTornTail(t) ==
    /\ t < Len(appends)
    /\ appends[t].kept < Len(record_bytes(appends[t].rec))
    /\ \A i \in 1..Len(appends) :
            i # t => appends[i].kept = Len(record_bytes(appends[i].rec))

\* the cells of the records other than the one at t, in file order
CellsExcept(t) ==
    [i \in 1..(Len(appends) - 1) |->
        IF i < t THEN appends[i].cell ELSE appends[i + 1].cell]

\* C37: appends after a torn tail remain readable: when a column file ends
\* in a partial record, load is run and cells c1..ck are appended, a fresh
\* load of the file yields the complete records loaded before followed by
\* c1..ck; the torn bytes are not left in front of the new records.
C37_AppendsAfterTornTailReadable ==
    [][\A t \in 1..Len(appends) :
          (handle = "closed" /\ handle' # "closed" /\ AppendedAfterTornTail(t)) =>
              (/\ handle' = "loaded"
               /\ held' = CellsExcept(t))]_vars

\* the loop takes an InvokeMap or AddMapFn command from the channel, or is
\* at work on one
ServesQuery ==
    \/ command.kind \in {"InvokeMap", "AddMapFn"}
    \/ /\ pc = "loop"
       /\ command = NoCommand
       /\ queue # <<>>
       /\ Head(queue).kind \in {"InvokeMap", "AddMapFn"}
       /\ queue' = Tail(queue)

\* C38: InvokeMap and AddMapFn are read-only with respect to the container:
\* processing either command, whatever its outcome, leaves every column's
\* contents (in memory and in its file), the layout and the counter (in
\* memory and on disk) unchanged, so queries between two inserts change
\* nothing of what the second insert or a later query observes.
C38_QueriesLeaveContainer ==
    [][ServesQuery =>
          UNCHANGED <<config, columns, column_names_ordered, layout_file, index_counter,
                      auto_index_file>>]_vars

\* with a row in the store and its counter on disk, an AddMapFn command was
\* answered and the rows of an InvokeMap command are being drained
C38_Witness ==
    /\ command.kind = "InvokeMap"
    /\ pc = "drain"
    /\ rows # <<>>
    /\ \E i \in 1..Len(replies) : replies[i].kind = "AddMapFn"
    /\ auto_index_file.exists
    /\ index_counter > 0

\* the drain loop has kept the frame
KeptFrame(frame) == \E k \in 1..Len(rows) : rows[k] = frame

\* the drain loop has evaluated every frame of the query it is in
AllEvaluated ==
    command.kind = "InvokeMap" /\ pc = "drain" /\ query_channel = <<>> /\ to_send = <<>>

\* C39: each filter invocation runs in a fresh sandbox, so the decision for
\* a row depends only on the stored artifact and that row's timestamp: two
\* rows with the same timestamp, evaluated by the same filter in one query
\* at any position and after any other rows, get the same decision.
C39_DecisionByTimestampAlone ==
    AllEvaluated =>
        \A a, b \in 1..Len(all_rows(columns).rows) :
            get(all_rows(columns).rows[a], "timestamp")
                    = get(all_rows(columns).rows[b], "timestamp")
                => (KeptFrame(all_rows(columns).rows[a]) <=> KeptFrame(all_rows(columns).rows[b]))

\* C40: a FieldCountMismatch raised for a wrong number of fields carries
\* (expected, got), expected being the number of user columns (the layout's
\* columns without id, and without timestamp when configured) and got the
\* number of fields supplied; raised for fields and values of different
\* lengths it carries (number of fields, number of values).
C40_MismatchCarriesCounts ==
    result.kind = "FieldCountMismatch" =>
        IF Len(params.fields) # UserColumnCount
        THEN result = FieldCountMismatch(UserColumnCount, Len(params.fields))
        ELSE result = FieldCountMismatch(Len(params.fields), Len(params.values))

====
